---------------------------- MODULE Spec2Model ----------------------------
(***************************************************************************)
(* A model of go-faad2's pull readers: the container reader (M4AReader,    *)
(* src/m4a.go), the elementary stream reader (ADTSReader, src/adts.go) and *)
(* the Decoder they own (src/decoder.go).                                  *)
(*                                                                         *)
(* Scaling.  TLC's integers are 32 bits wide, so the 64-bit arithmetic of  *)
(* Seek and Position is modelled with words of WordBits bits and           *)
(* SecondTicks duration ticks per second; wrap-around happens at 2^WordBits *)
(* exactly as it does at 2^64 in the program.                              *)
(*                                                                         *)
(* The decode engine (the FAAD2 library behind faad2_decoder_decode) is a  *)
(* deterministic function of the frame bytes; engine memory allocation is  *)
(* taken to succeed.                                                       *)
(***************************************************************************)
EXTENDS Integers, Sequences, FiniteSets, TLC

\* ------------------------------------------------------------ bounds
\* Most frames in a container file / in an elementary stream.
MaxFrames == 3
\* Largest caller buffer (len(pcm)) a Read is called with.
MaxCap == 3
\* Width of the scaled machine word standing for 64 bits.
WordBits == 5
\* Duration ticks per second in the scaled model (time.Second in the program).
SecondTicks == 2
\* Most bytes cut off the end of a file (a truncated download).
MaxCut == 1
\* Goroutines that use one Decoder at the same time.
NumProcs == 2
\* Most calls each of these goroutines makes on the Decoder.
MaxCalls == 2
\* Most chunks (entries of the chunk offset table) in a container file.
MaxChunks == 2

\* ------------------------------------------------------------ helpers
Min(a, b) == IF a < b THEN a ELSE b

RECURSIVE Pow2(_)
Pow2(k) == IF k = 0 THEN 1 ELSE 2 * Pow2(k - 1)

WordMod == Pow2(WordBits)

\* uint64(x): the value of x in an unsigned word.
U64(x) == x % WordMod

\* int64 wrap-around of a mathematical integer.
I64(x) == ((x + (WordMod \div 2)) % WordMod) - (WordMod \div 2)

\* Go's integer division truncates toward zero.
TruncDiv(a, b) == IF a >= 0 THEN a \div b ELSE -((-a) \div b)

\* The time.Duration values (int64 nanoseconds, scaled).
Durations == (-(WordMod \div 2)) .. ((WordMod \div 2) - 1)

IsPrefix(s, t) == Len(s) <= Len(t) /\ SubSeq(t, 1, Len(s)) = s

RECURSIVE SumDur(_, _)
\* Sum of the durations of the first k descriptors of table.
SumDur(table, k) ==
  IF k = 0 THEN 0 ELSE SumDur(table, k - 1) + table[k].duration


\* ------------------------------------------------------------ state
VARIABLES
  kind,        \* which reader this run exercises: "m4a" or "adts"
  pc,          \* the caller: "start" before Open, "open" with a reader, "failed"
  source,      \* the bytes of the underlying io.Reader / io.ReadSeeker
  srcPos,      \* read position of the underlying source
  chunk,       \* most bytes the source delivers per Read call (io.Reader contract)
  samples,     \* M4AReader.samples: the sample table
  timescale,   \* M4AReader.timescale
  currentIdx,  \* M4AReader.currentIdx
  pcmBuffer,   \* leftover decoded samples (both readers)
  pcmOffset,   \* consumed offset into pcmBuffer
  framesRead,  \* ADTSReader.framesRead
  headerBuf,   \* ADTSReader.headerBuf
  decoder,     \* the reader's decoder field: "nil" or "set"
  dec,         \* the Decoder struct the reader was opened with
  destroyed,   \* engine log: calls of faad2_decoder_destroy for the handle
  last,        \* the last call on the reader and what it returned
  out,         \* samples returned by the Reads so far (while assoc = "open")
  assoc,       \* "open": out holds all that the Reads since Open, or since the
               \* last successful Seek, returned, and all of them returned nil;
               \* "ended": then one reported an error or end-of-stream (its samples
               \* are in out, later ones are not); "void": nothing is followed
  from,        \* the sample index the Reads collected in out started from
  info,        \* what parseM4A returns for the file: [err, config]
  enginePtr,   \* the pointer faad2_decoder_create returns (0: out of memory)
  args,        \* the input a run of the header and config helpers was given
  mu,          \* Decoder.mu: 0 unlocked, or the goroutine that holds it
  gpc,         \* where each goroutine stands in its call on the Decoder
  call,        \* the call each goroutine is making
  ret,         \* what the last call of each goroutine returned
  ncalls,      \* the calls each goroutine has made
  inEngine,    \* the goroutines inside an engine call for the Decoder's handle
  engineLog,   \* the engine calls issued for the handle, in order
  returned,    \* the operations (Init, Close) that have returned nil
  globalCtx,   \* wasm.go globalCtx: 0 (nil), or the runtime it holds
  globalOnce,  \* wasm.go globalOnce: TRUE once Do has run its function
  globalMu,    \* wasm.go globalMu: 0 unlocked, or the goroutine that holds it
  errGlobal,   \* wasm.go errGlobal
  globalReset, \* wasm.go globalReset
  built,       \* the runtimes initWasmContext has built so far (the last one's id)
  rtLog        \* the getWasmContext and Shutdown bodies run so far, in order

\* The variables of the readers, but for their Decoder and its destroy count.
readerRest == <<kind, pc, source, srcPos, chunk, samples, timescale, currentIdx,
                pcmBuffer, pcmOffset, framesRead, headerBuf, decoder, last, out,
                assoc, from, info, enginePtr, args>>

\* The variables of the goroutines that share one Decoder.
sharingVars == <<mu, gpc, call, ret, ncalls, inEngine, engineLog, returned>>

\* What of the goroutines' variables only the shared Decoder uses.
lockVars == <<mu, inEngine, engineLog, returned>>

\* The package-level variables of wasm.go and their history.
runtimeVars == <<globalCtx, globalOnce, globalMu, errGlobal, globalReset, built, rtLog>>

vars == <<readerRest, dec, destroyed, sharingVars, runtimeVars>>

\* ------------------------------------------------------------ decode engine
\* faad2_decoder_decode: the first byte of a frame fixes what the engine makes of
\* it: b % 4 samples (0: a priming/filler frame), or a decode error (b % 4 = 3).
\* The sample values are unique to the frame byte and the place in the frame.
EngineDecode(frame) ==
  LET b == frame[1] IN
  IF b % 4 = 3 THEN [status |-> -1, pcm |-> <<>>]
  ELSE [status |-> b % 4, pcm |-> [j \in 1..(b % 4) |-> (4 * b) + j]]

\* ------------------------------------------------------------ Decoder
\* DecoderDecode with the bug of looking at the frame before the closed flag.
DecoderDecodeFrameFirst(d, aacFrame) ==
  IF Len(aacFrame) = 0 THEN [pcm |-> <<>>, err |-> "ErrEmptyFrame", calls |-> 0]
  ELSE IF d.closed THEN [pcm |-> <<>>, err |-> "ErrDecoderClosed", calls |-> 0]
  ELSE IF ~d.initialized THEN [pcm |-> <<>>, err |-> "ErrNotInitialized", calls |-> 0]
  ELSE IF d.channels = 0 THEN [pcm |-> <<>>, err |-> "ErrInvalidConfig", calls |-> 0]
  ELSE LET r == EngineDecode(aacFrame) IN
       IF r.status < 0 THEN [pcm |-> <<>>, err |-> "ErrDecodeFailed", calls |-> 1]
       ELSE [pcm |-> r.pcm, err |-> "nil", calls |-> 1]

\* Decoder.Decode: the guards in the order of the code, then the engine call.
\* calls: the engine decode calls made (0 or 1).
DecoderDecode(d, aacFrame) ==
  IF d.closed THEN [pcm |-> <<>>, err |-> "ErrDecoderClosed", calls |-> 0]
  ELSE IF ~d.initialized THEN [pcm |-> <<>>, err |-> "ErrNotInitialized", calls |-> 0]
  ELSE IF Len(aacFrame) = 0 THEN [pcm |-> <<>>, err |-> "ErrEmptyFrame", calls |-> 0]
  ELSE IF d.channels = 0 THEN [pcm |-> <<>>, err |-> "ErrInvalidConfig", calls |-> 0]
  ELSE LET r == EngineDecode(aacFrame) IN
       IF r.status < 0 THEN [pcm |-> <<>>, err |-> "ErrDecodeFailed", calls |-> 1]
       ELSE [pcm |-> r.pcm, err |-> "nil", calls |-> 1]

\* The frame index an error value carries: the errors of the package are values
\* made by errors.New, and Read hands on the one it got; none carries an index.
ErrorFrame(err) == -1

\* Decoder.Close: [d |-> the decoder after the call, destroys |-> engine destroy calls].
DecoderClose(d) ==
  IF d.closed THEN [d |-> d, destroys |-> 0, err |-> "nil"]
  ELSE [d |-> [d EXCEPT !.decoderPtr = 0, !.closed = TRUE],
        destroys |-> IF d.decoderPtr # 0 THEN 1 ELSE 0,
        err |-> "nil"]

\* ------------------------------------------------------------ M4AReader
\* The reader fields Read, Seek and Close change, as one record.
Reader == [currentIdx |-> currentIdx, pcmBuffer |-> pcmBuffer,
           pcmOffset |-> pcmOffset, srcPos |-> srcPos,
           framesRead |-> framesRead, headerBuf |-> headerBuf]

\* m.reader.Seek(sample.offset) followed by io.ReadFull(m.reader, sampleData).
M4AFetch(sample) ==
  IF sample.size = 0 THEN [err |-> "nil", data |-> <<>>, pos |-> sample.offset]
  ELSE IF sample.offset >= Len(source)
    THEN [err |-> "EOF", data |-> <<>>, pos |-> sample.offset]
  ELSE IF sample.offset + sample.size > Len(source)
    THEN [err |-> "ErrUnexpectedEOF", data |-> <<>>, pos |-> Len(source)]
  ELSE [err |-> "nil",
        data |-> SubSeq(source, sample.offset + 1, sample.offset + sample.size),
        pos |-> sample.offset + sample.size]

\* What Read hands back: the reader after the call, the samples copied (n is their
\* count), the error, whether the call found the source exhausted, and the engine
\* decode calls it made.
ReadResult(r, pcm, err, eof, decodes) ==
  [r |-> r, pcm |-> pcm, err |-> err, eof |-> eof, calls |-> decodes]

\* KeepLeftover with the bug of storing the offset 0: the samples already copied
\* would be handed out a second time.
KeepLeftoverRewound(r, decoded, n) ==
  IF n < Len(decoded)
  THEN [r EXCEPT !.pcmBuffer = decoded, !.pcmOffset = 0]
  ELSE [r EXCEPT !.pcmBuffer = <<>>, !.pcmOffset = 0]

\* The leftover kept after n of the decoded samples were copied to the caller.
KeepLeftover(r, decoded, n) ==
  IF n < Len(decoded)
  THEN [r EXCEPT !.pcmBuffer = decoded, !.pcmOffset = n]
  ELSE [r EXCEPT !.pcmBuffer = <<>>, !.pcmOffset = 0]

RECURSIVE M4AReadLoop(_, _, _, _, _)

\* M4ACopy with the bug of returning on a frame that decodes to no samples.
M4ACopyEndsOnEmpty(r, d, cap, pcm, decodes, decoded, n) ==
  IF Len(decoded) = 0 THEN ReadResult(r, pcm, "nil", FALSE, decodes)
  ELSE M4AReadLoop(KeepLeftover(r, decoded, n), d, cap, pcm \o SubSeq(decoded, 1, n),
                   decodes)

\* The loop body of Read once a sample decoded without error into decoded: n of
\* its samples fit the caller's buffer, the rest is kept.
M4ACopy(r, d, cap, pcm, decodes, decoded, n) ==
  IF Len(decoded) = 0 THEN M4AReadLoop(r, d, cap, pcm, decodes)
  ELSE M4AReadLoop(KeepLeftover(r, decoded, n), d, cap, pcm \o SubSeq(decoded, 1, n),
                   decodes)

\* The loop body of Read with the result dd of m.decoder.Decode(sampleData).
M4ADecoded(r, d, cap, pcm, decodes, dd) ==
  IF dd.err # "nil" THEN ReadResult(r, pcm, dd.err, FALSE, decodes + dd.calls)
  ELSE M4ACopy(r, d, cap, pcm, decodes + dd.calls, dd.pcm,
               Min(cap - Len(pcm), Len(dd.pcm)))

\* M4AFetched with the bug of stepping back to the sample whose fetch failed.
M4AFetchedRetries(r, f, d, cap, pcm, decodes) ==
  IF f.err # "nil"
    THEN ReadResult([r EXCEPT !.currentIdx = @ - 1], pcm, f.err, FALSE, decodes)
  ELSE M4ADecoded(r, d, cap, pcm, decodes, DecoderDecode(d, f.data))

\* The loop body of Read after m.currentIdx++, with the result f of the Seek and
\* io.ReadFull for the sample data. Every fetch seeks to an absolute offset, so
\* the position the file is left at is not kept.
M4AFetched(r, f, d, cap, pcm, decodes) ==
  IF f.err # "nil" THEN ReadResult(r, pcm, f.err, FALSE, decodes)
  ELSE M4ADecoded(r, d, cap, pcm, decodes, DecoderDecode(d, f.data))

\* M4ADrain with the bug of counting a sample as consumed on every drain.
M4ADrainAdvances(r, d, cap, pcm, decodes, n) ==
  M4AReadLoop([r EXCEPT !.pcmOffset = @ + n, !.currentIdx = @ + 1], d, cap,
              pcm \o SubSeq(r.pcmBuffer, r.pcmOffset + 1, r.pcmOffset + n), decodes)

\* The drain of the leftover: n samples of pcmBuffer go to the caller.
M4ADrain(r, d, cap, pcm, decodes, n) ==
  M4AReadLoop([r EXCEPT !.pcmOffset = @ + n], d, cap,
              pcm \o SubSeq(r.pcmBuffer, r.pcmOffset + 1, r.pcmOffset + n), decodes)

\* The loop of M4AReader.Read: r the reader, d its Decoder, cap = len(pcm), pcm the
\* samples copied so far (totalRead = Len(pcm)), decodes the engine calls so far.
M4AReadLoop(r, d, cap, pcm, decodes) ==
  IF Len(pcm) >= cap THEN ReadResult(r, pcm, "nil", FALSE, decodes)
  ELSE IF r.pcmOffset < Len(r.pcmBuffer)
    THEN M4ADrain(r, d, cap, pcm, decodes,
                  Min(cap - Len(pcm), Len(r.pcmBuffer) - r.pcmOffset))
  ELSE IF r.currentIdx >= Len(samples) THEN
    IF Len(pcm) > 0 THEN ReadResult(r, pcm, "nil", TRUE, decodes)
    ELSE ReadResult(r, pcm, "EOF", TRUE, decodes)
  ELSE M4AFetched([r EXCEPT !.currentIdx = @ + 1], M4AFetch(samples[r.currentIdx + 1]),
                  d, cap, pcm, decodes)

\* M4AReader.Read(ctx, pcm) with len(pcm) = cap.
M4AReadOp(r, cap) ==
  IF decoder = "nil" THEN ReadResult(r, <<>>, "ErrNotInitialized", FALSE, 0)
  ELSE M4AReadLoop(r, dec, cap, <<>>, 0)

\* targetTime of Seek: uint64(position) * uint64(m.timescale) / uint64(time.Second).
TargetTime(position) == U64(U64(position) * timescale) \div SecondTicks

RECURSIVE SeekScan(_, _, _, _)
\* The scan of Seek from descriptor i (1-based) with accumulatedTime acc and the
\* targetIdx so far.
SeekScan(i, acc, targetIdx, targetTime) ==
  IF i > Len(samples) THEN targetIdx
  ELSE IF U64(acc + samples[i].duration) > targetTime THEN i - 1
  ELSE SeekScan(i + 1, U64(acc + samples[i].duration), i, targetTime)

\* The sample index Seek(position) selects (after the clamp).
SeekIndex(position) ==
  LET targetIdx == SeekScan(1, 0, 0, TargetTime(position)) IN
  IF targetIdx >= Len(samples) THEN Len(samples) ELSE targetIdx

\* M4ASeekOp with the bug of keeping the leftover of the frame decoded last.
M4ASeekKeepsLeftover(r, position) ==
  IF timescale = 0 THEN [r |-> r, err |-> "ErrSeekUnavailable"]
  ELSE [r |-> [r EXCEPT !.currentIdx = SeekIndex(position)], err |-> "nil"]

\* M4ASeekOp with the bug of not looking at the timescale.
M4ASeekAnyTimescale(r, position) ==
  [r |-> [r EXCEPT !.currentIdx = SeekIndex(position),
                   !.pcmBuffer = <<>>, !.pcmOffset = 0],
   err |-> "nil"]

\* M4AReader.Seek(position).
M4ASeekOp(r, position) ==
  IF timescale = 0 THEN [r |-> r, err |-> "ErrSeekUnavailable"]
  ELSE [r |-> [r EXCEPT !.currentIdx = SeekIndex(position),
                        !.pcmBuffer = <<>>, !.pcmOffset = 0],
        err |-> "nil"]

\* M4AReader.Position() of a reader whose currentIdx is idx.
Position(idx) ==
  IF timescale = 0 \/ idx = 0 THEN 0
  ELSE TruncDiv(I64(I64(SumDur(samples, Min(idx, Len(samples)))) * SecondTicks),
                timescale)

\* M4AReader.Duration(), as OpenM4A computes it.
Duration ==
  IF timescale > 0
  THEN TruncDiv(I64(I64(SumDur(samples, Len(samples))) * SecondTicks), timescale)
  ELSE 0

\* ReaderClose with the bug of dropping the decoder without closing it.
ReaderCloseLeaks ==
  [decoder |-> "nil", dec |-> dec, destroys |-> 0, err |-> "nil"]

\* M4AReader.Close / ADTSReader.Close: [decoder, dec, destroys, err].
ReaderClose ==
  IF decoder # "nil"
  THEN LET c == DecoderClose(dec) IN
       [decoder |-> "nil", dec |-> c.d, destroys |-> c.destroys, err |-> c.err]
  ELSE [decoder |-> decoder, dec |-> dec, destroys |-> 0, err |-> "nil"]


\* ------------------------------------------------------------ ADTSReader
adtsSampleRateCount == 16

adtsSampleRates == <<96000, 88200, 64000, 48000, 44100, 32000, 24000, 22050,
                     16000, 12000, 11025, 8000, 7350, 0, 0, 0>>

maxResyncBytes == 8192

\* dst with data copied over it from index at (0-based), as copy and Read do.
Overlay(dst, at, data) ==
  [i \in 1..Len(dst) |->
     IF i > at /\ i <= at + Len(data) THEN data[i - at] ELSE dst[i]]

\* io.ReadFull(reader, buf) with len(buf) = n, from source position pos: io.EOF
\* only if no byte was read, io.ErrUnexpectedEOF after some but not all.
ReadFull(pos, n) ==
  LET left == Len(source) - pos IN
  IF n = 0 THEN [err |-> "nil", data |-> <<>>, pos |-> pos]
  ELSE IF left = 0 THEN [err |-> "EOF", data |-> <<>>, pos |-> pos]
  ELSE IF left < n
    THEN [err |-> "ErrUnexpectedEOF", data |-> SubSeq(source, pos + 1, Len(source)),
          pos |-> Len(source)]
  ELSE [err |-> "nil", data |-> SubSeq(source, pos + 1, pos + n), pos |-> pos + n]

\* One reader.Read(buf) with len(buf) = n > 0: the source delivers at most chunk
\* bytes, and (0, io.EOF) at its end.
SourceRead(pos, n) ==
  LET k == Min(Min(n, chunk), Len(source) - pos) IN
  IF k = 0 THEN [err |-> "EOF", data |-> <<>>, pos |-> pos]
  ELSE [err |-> "nil", data |-> SubSeq(source, pos + 1, pos + k), pos |-> pos + k]

\* syncWord := uint16(headerBuf[0])<<4 | uint16(headerBuf[1]>>4)
SyncWord(buf) == (buf[1] * 16) + (buf[2] \div 16)

\* The least j (0-based) in i..Len(buf)-2 with buf[j] = 0xFF and
\* buf[j+1] & 0xF0 = 0xF0, or -1: the scan loop of resync.
FindSync(buf, i) ==
  LET hits == { j \in i..(Len(buf) - 2) :
                  buf[j + 1] = 255 /\ (buf[j + 2] \div 16) * 16 = 240 } IN
  IF hits = {} THEN -1 ELSE CHOOSE j \in hits : \A k \in hits : j <= k

\* resync, the sync word found at i with fewer than 7 bytes behind it: the bytes
\* found go to headerBuf and io.ReadFull (its result f) brings the rest.
ResyncRest(r, found, f) ==
  [err |-> f.err,
   r |-> [r EXCEPT !.srcPos = f.pos,
                   !.headerBuf = Overlay(Overlay(@, 0, found), Len(found), f.data)],
   eof |-> f.err # "nil"]

\* resync, after its one Read returned rd: searchBuf[:bytesInBuf] is scanned, i
\* is the place of the first sync word in it (-1: none).
ResyncScan(r, rd, searchBuf, i) ==
  IF rd.err # "nil" /\ Len(rd.data) = 0
    THEN [err |-> "ErrADTSSyncNotFound", r |-> r, eof |-> TRUE]
  ELSE IF i < 0
    THEN [err |-> "ErrADTSSyncNotFound", r |-> [r EXCEPT !.srcPos = rd.pos],
          eof |-> FALSE]
  ELSE IF i + 7 <= Len(searchBuf)
    THEN [err |-> "nil",
          r |-> [r EXCEPT !.srcPos = rd.pos,
                          !.headerBuf = Overlay(@, 0, SubSeq(searchBuf, i + 1, i + 7))],
          eof |-> FALSE]
  ELSE ResyncRest(r, SubSeq(searchBuf, i + 1, Len(searchBuf)),
                  ReadFull(rd.pos, 7 - (Len(searchBuf) - i)))

\* resync with searchBuf[:bytesInBuf] filled.
ResyncSearch(r, rd, searchBuf) == ResyncScan(r, rd, searchBuf, FindSync(searchBuf, 0))

\* resync with the result rd of ar.reader.Read(searchBuf[6:]).
ResyncRead(r, rd) == ResyncSearch(r, rd, SubSeq(r.headerBuf, 2, 7) \o rd.data)

\* Resync with the bug of asking the source for all it has left.
ResyncUnbounded(r) == ResyncRead(r, SourceRead(r.srcPos, Len(source)))

\* ADTSReader.resync: [err, r, eof].
Resync(r) == ResyncRead(r, SourceRead(r.srcPos, maxResyncBytes - 6))

\* The adtsHeader readHeader builds from headerBuf.
ParseHeader(buf) ==
  [syncWord          |-> SyncWord(buf),
   id                |-> (buf[2] \div 8) % 2,
   layer             |-> (buf[2] \div 2) % 4,
   protectionAbsent  |-> buf[2] % 2 = 1,
   profile           |-> (buf[3] \div 64) % 4,
   samplingFreqIndex |-> (buf[3] \div 4) % 16,
   privateBit        |-> (buf[3] \div 2) % 2 = 1,
   channelConfig     |-> ((buf[3] % 2) * 4) + ((buf[4] \div 64) % 4),
   originalCopy      |-> (buf[4] \div 32) % 2 = 1,
   home              |-> (buf[4] \div 16) % 2 = 1,
   frameLength       |-> ((buf[4] % 4) * 2048) + (buf[5] * 8) + ((buf[6] \div 32) % 8),
   bufferFullness    |-> ((buf[6] % 32) * 64) + ((buf[7] \div 4) % 64),
   numRawDataBlocks  |-> buf[7] % 4]

\* readHeader, the CRC bytes: c is the result of io.ReadFull(headerBuf[7:9]).
HeaderCRC(r, header, c) ==
  IF c.err # "nil"
  THEN [err |-> c.err, header |-> <<>>, eof |-> TRUE,
        r |-> [r EXCEPT !.srcPos = c.pos, !.headerBuf = Overlay(@, 7, c.data)]]
  ELSE [err |-> "nil", header |-> header, eof |-> FALSE,
        r |-> [r EXCEPT !.srcPos = c.pos, !.headerBuf = Overlay(@, 7, c.data)]]

\* readHeader with headerBuf holding a sync word: the header is parsed.
HeaderParsed(r, header) ==
  IF ~header.protectionAbsent THEN HeaderCRC(r, header, ReadFull(r.srcPos, 2))
  ELSE [err |-> "nil", r |-> r, header |-> header, eof |-> FALSE]

\* readHeader after the sync word check: s is what resync returned, or no error.
HeaderSynced(s) ==
  IF s.err # "nil" THEN [err |-> s.err, r |-> s.r, header |-> <<>>, eof |-> s.eof]
  ELSE HeaderParsed(s.r, ParseHeader(s.r.headerBuf))

\* readHeader with the 7 bytes in headerBuf.
HeaderRead(r) ==
  IF SyncWord(r.headerBuf) # 4095 THEN HeaderSynced(Resync(r))
  ELSE HeaderSynced([err |-> "nil", r |-> r, eof |-> FALSE])

\* readHeader with the result f of io.ReadFull(ar.reader, ar.headerBuf[:7]).
HeaderBytes(r, f) ==
  IF f.err # "nil"
  THEN [err |-> f.err, header |-> <<>>, eof |-> TRUE,
        r |-> [r EXCEPT !.srcPos = f.pos, !.headerBuf = Overlay(@, 0, f.data)]]
  ELSE HeaderRead([r EXCEPT !.srcPos = f.pos, !.headerBuf = Overlay(@, 0, f.data)])

\* ADTSReader.readHeader: [err, r, header, eof], eof: the source reported its end.
ReadHeader(r) == HeaderBytes(r, ReadFull(r.srcPos, 7))

\* readPayload with the result f of io.ReadFull(ar.reader, payload).
PayloadRead(r, f) ==
  [err |-> f.err, r |-> [r EXCEPT !.srcPos = f.pos],
   payload |-> IF f.err = "nil" THEN f.data ELSE <<>>, eof |-> f.err # "nil"]

\* ReadPayload with the bug of letting a frame as long as its header through.
ReadPayloadLoose(r, header) ==
  IF header.frameLength < (IF ~header.protectionAbsent THEN 9 ELSE 7)
    THEN [err |-> "ErrInvalidADTS", r |-> r, payload |-> <<>>, eof |-> FALSE]
  ELSE PayloadRead(r, ReadFull(r.srcPos, header.frameLength -
                                      (IF ~header.protectionAbsent THEN 9 ELSE 7)))

\* ADTSReader.readPayload: [err, r, payload, eof].
ReadPayload(r, header) ==
  IF header.frameLength <= (IF ~header.protectionAbsent THEN 9 ELSE 7)
    THEN [err |-> "ErrInvalidADTS", r |-> r, payload |-> <<>>, eof |-> FALSE]
  ELSE PayloadRead(r, ReadFull(r.srcPos, header.frameLength -
                                      (IF ~header.protectionAbsent THEN 9 ELSE 7)))

RECURSIVE ADTSReadLoop(_, _, _, _, _)

\* ADTSCopy with the bug of not counting a frame that decodes to zero samples.
ADTSCopySkipsEmpty(r, d, cap, pcm, decodes, decoded, n) ==
  IF Len(decoded) = 0
  THEN ADTSReadLoop(r, d, cap, pcm, decodes)
  ELSE ADTSReadLoop(KeepLeftover([r EXCEPT !.framesRead = @ + 1], decoded, n), d, cap,
                    pcm \o SubSeq(decoded, 1, n), decodes)

\* The loop body of Read once a frame decoded without error into decoded (n of
\* its samples fit the caller's buffer): framesRead is counted, the rest kept.
ADTSCopy(r, d, cap, pcm, decodes, decoded, n) ==
  IF Len(decoded) = 0
  THEN ADTSReadLoop([r EXCEPT !.framesRead = @ + 1], d, cap, pcm, decodes)
  ELSE ADTSReadLoop(KeepLeftover([r EXCEPT !.framesRead = @ + 1], decoded, n), d, cap,
                    pcm \o SubSeq(decoded, 1, n), decodes)

\* The loop body of Read with the result dd of ar.decoder.Decode(payload).
ADTSDecoded(r, d, cap, pcm, decodes, dd) ==
  IF dd.err # "nil" THEN ReadResult(r, pcm, dd.err, FALSE, decodes + dd.calls)
  ELSE ADTSCopy(r, d, cap, pcm, decodes + dd.calls, dd.pcm,
                Min(cap - Len(pcm), Len(dd.pcm)))

\* The loop body of Read with the result p of ar.readPayload(header).
ADTSPayload(p, d, cap, pcm, decodes) ==
  IF p.err # "nil" THEN
    IF p.err = "EOF" /\ Len(pcm) > 0 THEN ReadResult(p.r, pcm, "nil", p.eof, decodes)
    ELSE ReadResult(p.r, pcm, p.err, p.eof, decodes)
  ELSE ADTSDecoded(p.r, d, cap, pcm, decodes, DecoderDecode(d, p.payload))

\* The loop body of Read with the result h of ar.readHeader().
ADTSHeader(h, d, cap, pcm, decodes) ==
  IF h.err # "nil" THEN
    IF h.err = "EOF" /\ Len(pcm) > 0 THEN ReadResult(h.r, pcm, "nil", h.eof, decodes)
    ELSE ReadResult(h.r, pcm, h.err, h.eof, decodes)
  ELSE ADTSPayload(ReadPayload(h.r, h.header), d, cap, pcm, decodes)

\* A drain that counts the buffered samples as one more decoded frame.
ADTSDrainCounts(r, d, cap, pcm, decodes, n) ==
  ADTSReadLoop([r EXCEPT !.pcmOffset = @ + n, !.framesRead = @ + 1], d, cap,
               pcm \o SubSeq(r.pcmBuffer, r.pcmOffset + 1, r.pcmOffset + n), decodes)

\* The drain of the leftover: n samples of pcmBuffer go to the caller.
ADTSDrain(r, d, cap, pcm, decodes, n) ==
  ADTSReadLoop([r EXCEPT !.pcmOffset = @ + n], d, cap,
               pcm \o SubSeq(r.pcmBuffer, r.pcmOffset + 1, r.pcmOffset + n), decodes)

\* The loop of ADTSReader.Read, with the parameters of M4AReadLoop.
ADTSReadLoop(r, d, cap, pcm, decodes) ==
  IF Len(pcm) >= cap THEN ReadResult(r, pcm, "nil", FALSE, decodes)
  ELSE IF r.pcmOffset < Len(r.pcmBuffer)
    THEN ADTSDrain(r, d, cap, pcm, decodes,
                   Min(cap - Len(pcm), Len(r.pcmBuffer) - r.pcmOffset))
  ELSE ADTSHeader(ReadHeader(r), d, cap, pcm, decodes)

\* ADTSReader.Read(pcm) with len(pcm) = cap.
ADTSReadOp(r, cap) ==
  IF decoder = "nil" THEN ReadResult(r, <<>>, "ErrNotInitialized", FALSE, 0)
  ELSE ADTSReadLoop(r, dec, cap, <<>>, 0)

\* What ParseADTSHeader returns.
Parsed(sampleRate, channels, frameLength, err) ==
  [sampleRate |-> sampleRate, channels |-> channels, frameLength |-> frameLength,
   err |-> err]

\* ParseADTSHeader with the bug of looking for the sync word before the length.
ParseADTSHeaderSyncFirst(data) ==
  IF Len(data) >= 2 /\ SyncWord(data) # 4095
    THEN Parsed(0, 0, 0, "ErrADTSSyncNotFound")
  ELSE IF Len(data) < 7 THEN Parsed(0, 0, 0, "ErrInvalidADTS")
  ELSE Parsed(adtsSampleRates[((data[3] \div 4) % 16) + 1],
              ((data[3] % 2) * 4) + ((data[4] \div 64) % 4),
              ((data[4] % 4) * 2048) + (data[5] * 8) + ((data[6] \div 32) % 8),
              "nil")

\* ParseADTSHeader with the bug of leaving out the high bit of the channels.
ParseADTSHeaderNarrowChannels(data) ==
  IF Len(data) < 7 THEN Parsed(0, 0, 0, "ErrInvalidADTS")
  ELSE IF SyncWord(data) # 4095 THEN Parsed(0, 0, 0, "ErrADTSSyncNotFound")
  ELSE Parsed(adtsSampleRates[((data[3] \div 4) % 16) + 1],
              (data[4] \div 64) % 4,
              ((data[4] % 4) * 2048) + (data[5] * 8) + ((data[6] \div 32) % 8),
              "nil")

\* ParseADTSHeader(data).
ParseADTSHeader(data) ==
  IF Len(data) < 7 THEN Parsed(0, 0, 0, "ErrInvalidADTS")
  ELSE IF SyncWord(data) # 4095 THEN Parsed(0, 0, 0, "ErrADTSSyncNotFound")
  ELSE IF (data[3] \div 4) % 16 >= Len(adtsSampleRates)
    THEN Parsed(0, 0, 0, "ErrInvalidADTS")
  ELSE Parsed(adtsSampleRates[((data[3] \div 4) % 16) + 1],
              ((data[3] % 2) * 4) + ((data[4] \div 64) % 4),
              ((data[4] % 4) * 2048) + (data[5] * 8) + ((data[6] \div 32) % 8),
              "nil")

\* buildAudioSpecificConfig with the bug of dropping the low bit of the sampling
\* frequency index.
buildConfigDropsLowBit(objectType, samplingFreqIndex, channelConfig) ==
  << ((objectType * 8) % 256) + ((samplingFreqIndex \div 2) % 8),
     (channelConfig * 8) % 256 >>

\* buildAudioSpecificConfig(objectType, samplingFreqIndex, channelConfig), uint8
\* arithmetic.
buildAudioSpecificConfig(objectType, samplingFreqIndex, channelConfig) ==
  LET hi == (samplingFreqIndex % 2) * 128
      lo == (channelConfig * 8) % 256
  IN << ((objectType * 8) % 256) + ((samplingFreqIndex \div 2) % 8),
        IF lo >= 128 THEN lo ELSE hi + lo >>

\* faad2_decoder_init: the engine reads the sampling frequency index and the
\* channel configuration out of the AudioSpecificConfig; it rejects a config
\* shorter than two bytes and the object type 3 (AAC SSR).
EngineInit(config) ==
  IF Len(config) < 2 THEN [status |-> -1, sampleRate |-> 0, channels |-> 0]
  ELSE IF config[1] \div 8 = 3 THEN [status |-> -1, sampleRate |-> 0, channels |-> 0]
  ELSE [status |-> 0,
        sampleRate |-> adtsSampleRates[((config[1] % 8) * 2) + (config[2] \div 128) + 1],
        channels |-> (config[2] \div 8) % 16]

\* The Decoder NewDecoder returns.
NewDecoder ==
  [closed |-> FALSE, initialized |-> FALSE, decoderPtr |-> 1, sampleRate |-> 0,
   channels |-> 0]

\* The error NewDecoder returns: the engine gave no handle.
NewDecoderErr == IF enginePtr = 0 THEN "ErrOutOfMemory" ELSE "nil"

\* DecoderInit with the bug of setting initialized before the engine call.
DecoderInitMarksEarly(d, config) ==
  IF d.closed THEN [d |-> d, err |-> "ErrDecoderClosed"]
  ELSE IF Len(config) = 0 THEN [d |-> d, err |-> "ErrInvalidConfig"]
  ELSE [d |-> [d EXCEPT !.initialized = TRUE], err |-> "ErrInvalidConfig"]

\* Decoder.Init(config): [d, err].
DecoderInit(d, config) ==
  IF d.closed THEN [d |-> d, err |-> "ErrDecoderClosed"]
  ELSE IF Len(config) = 0 THEN [d |-> d, err |-> "ErrInvalidConfig"]
  ELSE LET e == EngineInit(config) IN
       IF e.status < 0 THEN [d |-> d, err |-> "ErrInvalidConfig"]
       ELSE [d |-> [d EXCEPT !.sampleRate = e.sampleRate, !.channels = e.channels,
                             !.initialized = TRUE],
             err |-> "nil"]

\* The reader struct OpenADTS / OpenM4A starts from.
NewReader ==
  [currentIdx |-> 0, pcmBuffer |-> <<>>, pcmOffset |-> 0, srcPos |-> 0,
   framesRead |-> 0, headerBuf |-> [i \in 1..9 |-> 0]]

\* What OpenADTS / OpenM4A hand back: err = "nil" and the reader r with its
\* Decoder d, or the error; creates and destroys count the engine create and
\* destroy calls made on the way.
OpenResult(err, r, d, creates, destroys) ==
  [err |-> err, r |-> r, d |-> d, creates |-> creates, destroys |-> destroys]

\* An Open that fails with err after its decoder d was made: decoder.Close().
OpenAbort(err, r, d) ==
  OpenResult(err, r, DecoderClose(d).d, 1, DecoderClose(d).destroys)

\* OpenADTS with the result dd of decoder.Decode(payload), the priming decode.
OpenDecoded(r, d, dd) ==
  IF dd.err # "nil" THEN OpenAbort(dd.err, r, d)
  ELSE OpenResult("nil",
                  [r EXCEPT !.framesRead = 1, !.pcmBuffer = dd.pcm, !.pcmOffset = 0],
                  d, 1, 0)

\* OpenPayload with the bug of returning the read error without decoder.Close().
OpenPayloadLeaks(p, d) ==
  IF p.err # "nil" THEN OpenResult(p.err, p.r, d, 1, 0)
  ELSE OpenDecoded(p.r, d, DecoderDecode(d, p.payload))

\* OpenADTS with the result p of ar.readPayload(header).
OpenPayload(p, d) ==
  IF p.err # "nil" THEN OpenAbort(p.err, p.r, d)
  ELSE OpenDecoded(p.r, d, DecoderDecode(d, p.payload))

\* OpenADTS with the result i of decoder.Init(config).
OpenInit(h, i) ==
  IF i.err # "nil" THEN OpenAbort(i.err, h.r, i.d)
  ELSE OpenPayload(ReadPayload(h.r, h.header), i.d)

\* OpenADTS with the header read and its sampling frequency index accepted.
OpenCreate(h) ==
  IF NewDecoderErr # "nil" THEN OpenResult(NewDecoderErr, h.r, NewDecoder, 0, 0)
  ELSE OpenInit(h, DecoderInit(NewDecoder,
                               buildAudioSpecificConfig(h.header.profile + 1,
                                                        h.header.samplingFreqIndex,
                                                        h.header.channelConfig)))

\* OpenADTS with the result h of ar.readHeader().
OpenHeader(h) ==
  IF h.err # "nil" THEN OpenResult(h.err, h.r, NewDecoder, 0, 0)
  ELSE IF h.header.samplingFreqIndex >= adtsSampleRateCount
    THEN OpenResult("ErrInvalidADTS", h.r, NewDecoder, 0, 0)
  ELSE IF adtsSampleRates[h.header.samplingFreqIndex + 1] = 0
    THEN OpenResult("ErrInvalidADTS", h.r, NewDecoder, 0, 0)
  ELSE OpenCreate(h)

\* OpenADTS(r) over the source.
OpenADTS == OpenHeader(ReadHeader(NewReader))

\* OpenM4A with the result i of decoder.Init(info.config).
OpenM4AInit(i) ==
  IF i.err # "nil" THEN OpenAbort(i.err, NewReader, i.d)
  ELSE OpenResult("nil", NewReader, i.d, 1, 0)

\* OpenM4A with the bug of taking an empty sample table for a missing track.
OpenM4ARejectsEmpty ==
  IF info.err # "nil" THEN OpenResult(info.err, NewReader, NewDecoder, 0, 0)
  ELSE IF Len(info.config) = 0 \/ Len(samples) = 0
    THEN OpenResult("ErrNoAudioTrack", NewReader, NewDecoder, 0, 0)
  ELSE IF NewDecoderErr # "nil"
    THEN OpenResult(NewDecoderErr, NewReader, NewDecoder, 0, 0)
  ELSE OpenM4AInit(DecoderInit(NewDecoder, info.config))

\* OpenM4A(r): the container is parsed (info), then the decoder made and
\* initialized with the codec configuration of the audio track.
OpenM4A ==
  IF info.err # "nil" THEN OpenResult(info.err, NewReader, NewDecoder, 0, 0)
  ELSE IF Len(info.config) = 0
    THEN OpenResult("ErrNoAudioTrack", NewReader, NewDecoder, 0, 0)
  ELSE IF NewDecoderErr # "nil"
    THEN OpenResult(NewDecoderErr, NewReader, NewDecoder, 0, 0)
  ELSE OpenM4AInit(DecoderInit(NewDecoder, info.config))

\* ------------------------------------------------------------ shared Decoder
\* The goroutines that call one Decoder.
Procs == 1..NumProcs

\* What a call on the Decoder comes to: the Decoder after it, what it returns
\* (err, pcm, value) and how far into the engine it went (fn): "none" no engine
\* call, "malloc" only allocations (one of them failed), or the engine function.
Outcome(d, err, pcm, value, fn) ==
  [d |-> d, err |-> err, pcm |-> pcm, value |-> value, fn |-> fn]

\* Decoder.Init(config) with the result i of its guards and its engine call; mem:
\* the allocations of the config and of the output parameters succeed.
InitOutcome(d, config, mem, i) ==
  IF d.closed \/ Len(config) = 0 THEN Outcome(d, i.err, <<>>, 0, "none")
  ELSE IF ~mem THEN Outcome(d, "ErrOutOfMemory", <<>>, 0, "malloc")
  ELSE Outcome(i.d, i.err, <<>>, 0, "init")

\* Decoder.Decode(aacFrame) with the result r of its guards and its engine call;
\* mem: the allocations of the input and output buffers succeed.
DecodeOutcome(d, mem, r) ==
  IF r.calls = 0 THEN Outcome(d, r.err, <<>>, 0, "none")
  ELSE IF ~mem THEN Outcome(d, "ErrOutOfMemory", <<>>, 0, "malloc")
  ELSE Outcome(d, r.err, r.pcm, 0, "decode")

\* Decoder.Close() with the result c of DecoderClose.
CloseOutcome(c) ==
  Outcome(c.d, c.err, <<>>, 0, IF c.destroys > 0 THEN "destroy" ELSE "none")

\* The call c = [op, arg] made on the Decoder d.
CallOutcome(d, c, mem) ==
  CASE c.op = "Init" -> InitOutcome(d, c.arg, mem, DecoderInit(d, c.arg))
    [] c.op = "Decode" -> DecodeOutcome(d, mem, DecoderDecode(d, c.arg))
    [] c.op = "Close" -> CloseOutcome(DecoderClose(d))
    [] c.op = "SampleRate" -> Outcome(d, "nil", <<>>, d.sampleRate, "none")
    [] c.op = "Channels" -> Outcome(d, "nil", <<>>, d.channels, "none")

\* d.mu.Lock() with the bug of not waiting for the holder.
MuBarging(p) == TRUE

\* d.mu.Lock() can return to goroutine p: nobody holds the mutex.
MuFree(p) == mu = 0

\* ------------------------------------------------------------ WASM runtime
\* The package-level variables as one record.
Globals ==
  [globalCtx |-> globalCtx, globalOnce |-> globalOnce, errGlobal |-> errGlobal,
   globalReset |-> globalReset]

\* OnceDone with the bug of a Once that never remembers it has run.
OnceForgets(g) == FALSE

\* globalOnce.Do will not run its function: it has run it, and no Shutdown has
\* asked for a reset since.
OnceDone(g) == g.globalOnce /\ ~g.globalReset

\* getWasmContext under globalMu: [g, ctx, err, inits, closes]. ok: this
\* initWasmContext, if it runs, succeeds; id: the runtime it builds.
GetWasmContext(g, ok, id) ==
  IF OnceDone(g)
  THEN [op |-> "getWasmContext", g |-> g, ctx |-> g.globalCtx, err |-> g.errGlobal,
        inits |-> 0, closes |-> <<>>]
  ELSE [op |-> "getWasmContext",
        g |-> [globalCtx |-> IF ok THEN id ELSE 0,
               errGlobal |-> IF ok THEN "nil" ELSE "ErrInit",
               globalOnce |-> TRUE, globalReset |-> FALSE],
        ctx |-> IF ok THEN id ELSE 0, err |-> IF ok THEN "nil" ELSE "ErrInit",
        inits |-> 1, closes |-> <<>>]

\* ShutdownOp with the bug of leaving globalCtx in place.
ShutdownKeepsCtx(g, cerr) ==
  IF g.globalCtx # 0
  THEN [op |-> "Shutdown",
        g |-> [g EXCEPT !.globalReset = TRUE, !.errGlobal = "nil"],
        ctx |-> 0, err |-> cerr, inits |-> 0, closes |-> <<g.globalCtx>>]
  ELSE [op |-> "Shutdown", g |-> g, ctx |-> 0, err |-> "nil", inits |-> 0,
        closes |-> <<>>]

\* ShutdownOp with the bug of asking for a reset also when no context is live.
ShutdownResetsAlways(g, cerr) ==
  IF g.globalCtx # 0
  THEN [op |-> "Shutdown",
        g |-> [g EXCEPT !.globalCtx = 0, !.globalReset = TRUE, !.errGlobal = "nil"],
        ctx |-> 0, err |-> cerr, inits |-> 0, closes |-> <<g.globalCtx>>]
  ELSE [op |-> "Shutdown",
        g |-> [g EXCEPT !.globalReset = TRUE, !.errGlobal = "nil"],
        ctx |-> 0, err |-> "nil", inits |-> 0, closes |-> <<>>]

\* Shutdown under globalMu; cerr: what runtime.Close returns.
ShutdownOp(g, cerr) ==
  IF g.globalCtx # 0
  THEN [op |-> "Shutdown",
        g |-> [g EXCEPT !.globalCtx = 0, !.globalReset = TRUE, !.errGlobal = "nil"],
        ctx |-> 0, err |-> cerr, inits |-> 0, closes |-> <<g.globalCtx>>]
  ELSE [op |-> "Shutdown", g |-> g, ctx |-> 0, err |-> "nil", inits |-> 0,
        closes |-> <<>>]

\* ------------------------------------------------------------ sample table
\* duration := uint32(1024), the default AAC frame duration.
defaultDuration == 1024

\* parseM4A, the stsz box: a fixed sample size repeated SampleCount times, or the
\* sizes listed in the box.
StszSizes(stsz) ==
  IF stsz.SampleSize # 0 THEN [i \in 1..stsz.SampleCount |-> stsz.SampleSize]
  ELSE stsz.EntrySize

RECURSIVE SampleDurations(_, _)
\* sampleDurations of buildSampleTable: entries k..Len(sttsEntries) of the stts
\* table, each SampleDelta repeated SampleCount times.
SampleDurations(sttsEntries, k) ==
  IF k > Len(sttsEntries) THEN <<>>
  ELSE [i \in 1..sttsEntries[k].SampleCount |-> sttsEntries[k].SampleDelta]
         \o SampleDurations(sttsEntries, k + 1)

\* SamplesInChunk with the bug of taking the run with the lowest index that
\* applies to the chunk instead of the last one.
SamplesInChunkFirstRun(stscEntries, i, chunkNo) ==
  IF \A j \in 1..i : chunkNo < stscEntries[j].FirstChunk THEN 1
  ELSE stscEntries[CHOOSE j \in 1..i :
                     /\ chunkNo >= stscEntries[j].FirstChunk
                     /\ \A k \in 1..(j - 1) : chunkNo < stscEntries[k].FirstChunk]
         .SamplesPerChunk

\* SamplesInChunk with the bug of a run applying only behind its first chunk.
SamplesInChunkBehind(stscEntries, i, chunkNo) ==
  LET runs == { j \in 1..i : chunkNo > stscEntries[j].FirstChunk } IN
  IF runs = {} THEN 1
  ELSE stscEntries[CHOOSE j \in runs : \A k \in runs : k <= j].SamplesPerChunk

RECURSIVE SamplesInChunk(_, _, _)
\* samplesInChunk for chunk number chunkNo = chunkIdx + 1: the scan over the stsc
\* entries from the last one down to entry i (1-based); 1 if none applies.
SamplesInChunk(stscEntries, i, chunkNo) ==
  IF i = 0 THEN 1
  ELSE IF chunkNo >= stscEntries[i].FirstChunk THEN stscEntries[i].SamplesPerChunk
  ELSE SamplesInChunk(stscEntries, i - 1, chunkNo)

\* One sampleInfo.
SampleInfo(offset, size, duration) ==
  [offset |-> offset, size |-> size, duration |-> duration]

\* DurationOf with the bug of sending the last listed duration to the fallback.
DurationOfShort(durations, sampleIdx) ==
  IF sampleIdx + 1 < Len(durations) THEN durations[sampleIdx + 1] ELSE defaultDuration

\* The duration of the sample with index sampleIdx (0-based).
DurationOf(durations, sampleIdx) ==
  IF sampleIdx < Len(durations) THEN durations[sampleIdx + 1] ELSE defaultDuration

RECURSIVE ChunkSamplesStuckCursor(_, _, _, _, _, _)
\* ChunkSamples with the bug of not advancing the byte cursor by the sample size.
ChunkSamplesStuckCursor(sizes, durations, n, i, offset, tbl) ==
  IF ~(i < n /\ Len(tbl) < Len(sizes)) THEN tbl
  ELSE ChunkSamplesStuckCursor(sizes, durations, n, i + 1, offset,
                               Append(tbl, SampleInfo(offset, sizes[Len(tbl) + 1],
                                                      DurationOf(durations, Len(tbl)))))

RECURSIVE ChunkSamples(_, _, _, _, _, _)
\* The inner loop of buildSampleTable for one chunk: i samples of the chunk are
\* done, offset is the running byte cursor (uint64), tbl the table so far.
\* Gives the table and sampleIdx after the chunk.
ChunkSamples(sizes, durations, n, i, offset, tbl) ==
  IF ~(i < n /\ Len(tbl) < Len(sizes)) THEN tbl
  ELSE ChunkSamples(sizes, durations, n, i + 1, U64(offset + sizes[Len(tbl) + 1]),
                    Append(tbl, SampleInfo(offset, sizes[Len(tbl) + 1],
                                           DurationOf(durations, Len(tbl)))))

RECURSIVE ChunksFrom(_, _, _, _, _, _)
\* The outer loop of buildSampleTable from chunk c (1-based) on; sampleIdx is
\* Len(tbl).
ChunksFrom(sizes, chunkOffsets, stscEntries, durations, c, tbl) ==
  IF c > Len(chunkOffsets) THEN tbl
  ELSE ChunksFrom(sizes, chunkOffsets, stscEntries, durations, c + 1,
                  ChunkSamples(sizes, durations,
                               SamplesInChunk(stscEntries, Len(stscEntries), c),
                               0, chunkOffsets[c], tbl))

\* buildSampleTable with the bug of taking every chunk to hold one sample.
buildSampleTableOnePerChunk(sampleSizes, chunkOffsets, stscEntries, sttsEntries) ==
  IF Len(sampleSizes) = 0 \/ Len(chunkOffsets) = 0 THEN <<>>
  ELSE ChunksFrom(sampleSizes, chunkOffsets, <<>>, SampleDurations(sttsEntries, 1), 1, <<>>)

\* buildSampleTable(sampleSizes, chunkOffsets, stscEntries, sttsEntries).
buildSampleTable(sampleSizes, chunkOffsets, stscEntries, sttsEntries) ==
  IF Len(sampleSizes) = 0 \/ Len(chunkOffsets) = 0 THEN <<>>
  ELSE ChunksFrom(sampleSizes, chunkOffsets, stscEntries,
                  SampleDurations(sttsEntries, 1), 1, <<>>)

\* ------------------------------------------------------------ inputs
\* An elementary stream frame: with or without the 2 CRC bytes, plen payload bytes
\* (0: the frame length equals the header size) and what the engine makes of it.
ADTSProfiles ==
  { [crc |-> FALSE, plen |-> 1, kind |-> 0],
    [crc |-> FALSE, plen |-> 2, kind |-> 2],
    [crc |-> TRUE,  plen |-> 1, kind |-> 1],
    [crc |-> FALSE, plen |-> 1, kind |-> 3],
    [crc |-> TRUE,  plen |-> 0, kind |-> 0] }

\* The 7 header bytes of the bit layout readHeader parses (id 0, layer 0,
\* buffer fullness 0x7FF, 0 raw data blocks).
ADTSHeaderBytes(protectionAbsent, profile, samplingFreqIndex, channelConfig, frameLength) ==
  << 255,
     240 + (IF protectionAbsent THEN 1 ELSE 0),
     (profile * 64) + (samplingFreqIndex * 4) + (channelConfig \div 4),
     ((channelConfig % 4) * 64) + (frameLength \div 2048),
     (frameLength \div 8) % 256,
     ((frameLength % 8) * 32) + 31,
     252 >>

\* The payload of the k-th frame: its first byte names the frame and its kind.
PayloadBytes(k, kd, len) == [i \in 1..len |-> IF i = 1 THEN (4 * k) + kd ELSE 0]

\* The bytes of the k-th frame of an elementary stream (AAC-LC, 44100 Hz, 2
\* channels).
ADTSFrameBytes(k, p) ==
  ADTSHeaderBytes(~p.crc, 1, 4, 2, (IF p.crc THEN 9 ELSE 7) + p.plen)
    \o (IF p.crc THEN <<0, 0>> ELSE <<>>)
    \o PayloadBytes(k, p.kind, p.plen)

RECURSIVE ADTSStream(_, _, _)
\* Frames k..Len(fs) of the stream, one junk byte before frame junkAt (0: none).
ADTSStream(fs, k, junkAt) ==
  IF k > Len(fs) THEN <<>>
  ELSE (IF k = junkAt THEN <<0>> ELSE <<>>)
         \o ADTSFrameBytes(k, fs[k]) \o ADTSStream(fs, k + 1, junkAt)

\* s without its last c bytes (a truncated file).
CutEnd(s, c) == SubSeq(s, 1, IF c >= Len(s) THEN 0 ELSE Len(s) - c)

\* One-frame streams whose header OpenADTS or the engine turns down: a reserved
\* sampling frequency index (13), the profile AAC SSR (2).
ADTSOddSources ==
  { ADTSHeaderBytes(TRUE, 1, 13, 2, 8) \o PayloadBytes(1, 1, 1),
    ADTSHeaderBytes(TRUE, 2, 4, 2, 8) \o PayloadBytes(1, 1, 1) }

ADTSSources ==
  { CutEnd(ADTSStream(fs, 1, j), c) :
      <<fs, j, c>> \in { t \in (UNION { [1..n -> ADTSProfiles] : n \in 1..MaxFrames })
                               \X (0..MaxFrames) \X (0..MaxCut) : t[2] <= Len(t[1]) } }
    \cup ADTSOddSources

\* A source that delivers 2 bytes per Read call, and one that delivers all asked.
Chunks == {2, maxResyncBytes}

\* The longest sample whose duration in nanoseconds still fits time.Duration.
LongSample == ((WordMod \div 2) - 1) \div SecondTicks

\* A container sample: what the engine makes of it, its size and its duration.
M4AProfiles ==
  { [kind |-> 0, size |-> 1, duration |-> 1],
    [kind |-> 2, size |-> 2, duration |-> 2],
    [kind |-> 3, size |-> 1, duration |-> 2],
    [kind |-> 1, size |-> 1, duration |-> LongSample] }

RECURSIVE M4AData(_, _)
\* The sample data of frames k..Len(fs), laid out back to back.
M4AData(fs, k) ==
  IF k > Len(fs) THEN <<>>
  ELSE PayloadBytes(k, fs[k].kind, fs[k].size) \o M4AData(fs, k + 1)

RECURSIVE M4AOffset(_, _)
M4AOffset(fs, k) == IF k = 1 THEN 0 ELSE M4AOffset(fs, k - 1) + fs[k - 1].size

\* The sample table of a file holding the frames fs.
M4ATable(fs) ==
  [k \in 1..Len(fs) |->
     [offset |-> M4AOffset(fs, k), size |-> fs[k].size, duration |-> fs[k].duration]]

Timescales == {0, 3}

\* What parseM4A makes of the file: an error of the box parser, no AAC audio
\* track, or the codec configuration of the audio track (a truncated one of one
\* byte; AAC SSR, 44100 Hz, stereo; AAC-LC, 44100 Hz, stereo).
M4AInfos ==
  { [err |-> "ErrBoxStructure", config |-> <<>>],
    [err |-> "ErrNoAudioTrack", config |-> <<>>],
    [err |-> "nil", config |-> <<18>>],
    [err |-> "nil", config |-> <<26, 16>>],
    [err |-> "nil", config |-> <<18, 16>>] }

\* No helper is run.
NoArgs == [gen |-> "none"]

\* The 7 header bytes that carry the fields of h, in the bit layout of the
\* parsers, most significant bit first.
EncodeHeader(h) ==
  << h.syncWord \div 16,
     ((h.syncWord % 16) * 16) + (h.id * 8) + (h.layer * 2) + h.protectionAbsent,
     (h.profile * 64) + (h.samplingFreqIndex * 4) + (h.privateBit * 2)
       + (h.channelConfig \div 4),
     ((h.channelConfig % 4) * 64) + (h.originalCopy * 32) + (h.home * 16)
       + (h.frameLength \div 2048),
     (h.frameLength \div 8) % 256,
     ((h.frameLength % 8) * 32) + (h.bufferFullness \div 64),
     ((h.bufferFullness % 64) * 4) + h.numRawDataBlocks >>

\* Frame lengths of 13 bits: none, every single bit, every run of low bits.
FrameLengths ==
  {0} \cup { Pow2(k) : k \in 0..12 } \cup { Pow2(k) - 1 : k \in 2..13 }

\* Values of the header bits that are neither sampling frequency index, channel
\* configuration nor frame length: all clear, all set, and two mixed ones.
OtherBits ==
  { [id |-> 0, layer |-> 0, protectionAbsent |-> 0, profile |-> 0, privateBit |-> 0,
     originalCopy |-> 0, home |-> 0, bufferFullness |-> 0, numRawDataBlocks |-> 0],
    [id |-> 1, layer |-> 3, protectionAbsent |-> 1, profile |-> 3, privateBit |-> 1,
     originalCopy |-> 1, home |-> 1, bufferFullness |-> 2047, numRawDataBlocks |-> 3],
    [id |-> 0, layer |-> 2, protectionAbsent |-> 1, profile |-> 1, privateBit |-> 0,
     originalCopy |-> 1, home |-> 0, bufferFullness |-> 1365, numRawDataBlocks |-> 1],
    [id |-> 1, layer |-> 1, protectionAbsent |-> 0, profile |-> 2, privateBit |-> 1,
     originalCopy |-> 0, home |-> 1, bufferFullness |-> 682, numRawDataBlocks |-> 2] }

\* The header fields of a well-formed header.
HeaderFields ==
  { [syncWord |-> 4095, id |-> b.id, layer |-> b.layer,
     protectionAbsent |-> b.protectionAbsent, profile |-> b.profile,
     samplingFreqIndex |-> f, privateBit |-> b.privateBit, channelConfig |-> c,
     originalCopy |-> b.originalCopy, home |-> b.home, frameLength |-> len,
     bufferFullness |-> b.bufferFullness,
     numRawDataBlocks |-> b.numRawDataBlocks] :
      <<f, c, len, b>> \in (0..15) \X (0..7) \X FrameLengths \X OtherBits }

\* Inputs shorter than a header: up to 6 bytes out of 0x00, 0xF1 and 0xFF.
ShortInputs == UNION { [1..n -> {0, 241, 255}] : n \in 0..6 }

\* Inputs of 7 and 8 bytes that do not start with the 12 set bits of a sync word.
UnsyncedInputs ==
  { <<a, b>> \o rest :
      <<a, b, rest>> \in { t \in {0, 127, 254, 255} \X {0, 15, 224, 239, 241, 255}
                                   \X {<<80, 128, 1, 31, 252>>, <<0, 0, 0, 0, 0, 0>>} :
                             ~(t[1] = 255 /\ t[2] >= 240) } }

\* The frames of the streams resync is tried on: [crc, sfi, ch, plen, kind], the
\* sampling frequency index, channel configuration and payload length differ.
ResyncFrames ==
  { [crc |-> FALSE, sfi |-> 4,  ch |-> 2, plen |-> 1, kind |-> 1],
    [crc |-> TRUE,  sfi |-> 3,  ch |-> 1, plen |-> 2, kind |-> 2],
    [crc |-> FALSE, sfi |-> 11, ch |-> 6, plen |-> 3, kind |-> 0] }

\* The bytes of frame f, its payload named k.
ResyncFrameBytes(k, f) ==
  ADTSHeaderBytes(~f.crc, 1, f.sfi, f.ch, (IF f.crc THEN 9 ELSE 7) + f.plen)
    \o (IF f.crc THEN <<0, 0>> ELSE <<>>)
    \o PayloadBytes(k, f.kind, f.plen)

\* n bytes of noise without a sync word: zeros, the last one 0xFF if endsFF.
Noise(n, endsFF) == [i \in 1..n |-> IF endsFF /\ i = n THEN 255 ELSE 0]

\* 7 bytes that do not start with a sync word, found where a header should be.
Leads == { <<0, 0, 0, 0, 0, 0, 0>>, <<255, 0, 7, 7, 7, 7, 7>>, <<0, 0, 0, 0, 0, 0, 255>> }

\* Lengths of noise far below the window of resync, and around its end.
SmallNoise == {0, 1, 2, 5}
LargeNoise == { maxResyncBytes - 13, maxResyncBytes - 12, maxResyncBytes - 8,
                maxResyncBytes - 7, maxResyncBytes - 1, maxResyncBytes,
                maxResyncBytes + 7 }

\* The make-up of a desynchronized stream: a frame before the damage or not, the
\* lead, the noise, and the frame behind it (or none: hasFrame is FALSE).
ResyncCases ==
  { [gen |-> "resync", before |-> b, lead |-> l, noise |-> n, endsFF |-> e,
     hasFrame |-> hf, frame |-> f] :
      <<b, l, n, e, hf, f>> \in
        { t \in BOOLEAN \X Leads \X (SmallNoise \cup LargeNoise) \X BOOLEAN
                 \X BOOLEAN \X ResyncFrames :
            /\ t[4] => t[3] \in SmallNoise \ {0}
            /\ t[3] \in LargeNoise => (t[2] = <<0, 0, 0, 0, 0, 0, 0>> /\ t[6].sfi = 4)
            /\ ~t[5] => t[6].sfi = 4 } }

\* Where the damage starts in the stream of case c: behind the frame before it.
DamageAt(c) ==
  IF c.before THEN Len(ResyncFrameBytes(1, [crc |-> FALSE, sfi |-> 4, ch |-> 2,
                                            plen |-> 1, kind |-> 1]))
  ELSE 0

\* The bytes of the stream of case c.
ResyncSource(c) ==
  (IF c.before
     THEN ResyncFrameBytes(1, [crc |-> FALSE, sfi |-> 4, ch |-> 2, plen |-> 1, kind |-> 1])
     ELSE <<>>)
    \o c.lead \o Noise(c.noise, c.endsFF)
    \o (IF c.hasFrame THEN ResyncFrameBytes(2, c.frame) ELSE <<>>)

\* The stsz boxes: a fixed size S repeated N times, or a list of sizes.
StszBoxes ==
  { [SampleSize |-> sz, SampleCount |-> n, EntrySize |-> <<>>] :
      <<sz, n>> \in {2, 3} \X (0..MaxFrames) }
    \cup { [SampleSize |-> 0, SampleCount |-> Len(e), EntrySize |-> e] :
             e \in UNION { [1..n -> {0, 2, 3}] : n \in 0..MaxFrames } }

\* The chunk offset tables: in any order, close together, far apart, and near
\* the end of the range of uint64.
ChunkOffsetTables ==
  UNION { [1..n -> {0, 2, 6, WordMod - 2}] : n \in 0..MaxChunks }

\* The stsc tables: none, one run, two runs, a run that starts at chunk 2, two
\* runs listed out of order.
StscTables ==
  { <<>>,
    <<[FirstChunk |-> 1, SamplesPerChunk |-> 1]>>,
    <<[FirstChunk |-> 1, SamplesPerChunk |-> 2]>>,
    <<[FirstChunk |-> 1, SamplesPerChunk |-> MaxFrames]>>,
    <<[FirstChunk |-> 1, SamplesPerChunk |-> 2], [FirstChunk |-> 2, SamplesPerChunk |-> 1]>>,
    <<[FirstChunk |-> 1, SamplesPerChunk |-> 1], [FirstChunk |-> 2, SamplesPerChunk |-> 2]>>,
    <<[FirstChunk |-> 2, SamplesPerChunk |-> 2]>>,
    <<[FirstChunk |-> 2, SamplesPerChunk |-> 2], [FirstChunk |-> 1, SamplesPerChunk |-> 1]>> }

\* The stts tables: none, runs shorter than the samples, runs for all of them.
SttsTables ==
  { <<>>,
    <<[SampleCount |-> 1, SampleDelta |-> 5]>>,
    <<[SampleCount |-> 2, SampleDelta |-> 5], [SampleCount |-> 1, SampleDelta |-> 7]>>,
    <<[SampleCount |-> MaxFrames + 1, SampleDelta |-> 1023]>> }

\* No container: the elementary stream reader parses no boxes.
NoInfo == [err |-> "nil", config |-> <<>>]

\* The calls the goroutines make on the shared Decoder: Init with no config, one
\* the engine rejects and a good one; Decode with no frame, a frame of one sample
\* and one the engine cannot decode.
DecoderCalls ==
  { [op |-> "Init", arg |-> c] : c \in {<<>>, <<18>>, <<18, 16>>} }
    \cup { [op |-> "Decode", arg |-> f] : f \in {<<>>, <<5>>, <<7>>} }
    \cup { [op |-> o, arg |-> <<>>] : o \in {"Close", "SampleRate", "Channels"} }

\* ------------------------------------------------------------ specification
\* What the last call was and what it returned.
\* calls: the engine calls it made (decode calls of a Read, destroy calls of a Close).
Note(op, arg, err, pcm, eof, calls) ==
  [op |-> op, arg |-> arg, n |-> Len(pcm), err |-> err, pcm |-> pcm, eof |-> eof,
   calls |-> calls]

\* Before OpenM4A / OpenADTS: the file is there, no reader and no decoder yet.
NoReader ==
  /\ pc = "start"
  /\ srcPos = 0 /\ currentIdx = 0 /\ pcmBuffer = <<>> /\ pcmOffset = 0
  /\ framesRead = 0 /\ headerBuf = NewReader.headerBuf
  /\ decoder = "nil" /\ dec = NewDecoder /\ destroyed = 0
  /\ last = Note("Start", 0, "nil", <<>>, FALSE, 0)
  /\ out = <<>> /\ assoc = "void" /\ from = 0

\* An M4A file: any table, any timescale, the sample data cut short or not.
InitM4A ==
  /\ kind = "m4a"
  /\ \E fs \in UNION { [1..n -> M4AProfiles] : n \in 0..MaxFrames }, c \in 0..MaxCut :
       /\ samples = M4ATable(fs)
       /\ source = CutEnd(M4AData(fs, 1), c)
  /\ timescale \in Timescales
  /\ chunk = maxResyncBytes
  /\ info \in M4AInfos
  /\ enginePtr \in {0, 1}
  /\ args = NoArgs
  /\ NoReader

\* An ADTS elementary stream behind a reader that delivers chunk bytes per call.
InitADTS ==
  /\ kind = "adts"
  /\ source \in ADTSSources
  /\ chunk \in Chunks
  /\ samples = <<>> /\ timescale = 0
  /\ info = NoInfo
  /\ enginePtr \in {0, 1}
  /\ args = NoArgs
  /\ NoReader

\* No goroutines share the Decoder: it is owned by its reader.
SharingIdle ==
  /\ mu = 0
  /\ gpc = [p \in Procs |-> "idle"]
  /\ call = [p \in Procs |-> [op |-> "none"]]
  /\ ret = [p \in Procs |-> [op |-> "none"]]
  /\ ncalls = [p \in Procs |-> 0]
  /\ inEngine = {} /\ engineLog = <<>> /\ returned = {}

\* The WASM runtime is left alone.
RuntimeIdle ==
  /\ globalCtx = 0 /\ globalOnce = FALSE /\ globalMu = 0 /\ errGlobal = "nil"
  /\ globalReset = FALSE /\ built = 0 /\ rtLog = <<>>

Init == (InitM4A \/ InitADTS) /\ SharingIdle /\ RuntimeIdle

\* The reader fields take the values of record r.
SetReader(r) ==
  /\ currentIdx' = r.currentIdx
  /\ pcmBuffer' = r.pcmBuffer
  /\ pcmOffset' = r.pcmOffset
  /\ srcPos' = r.srcPos
  /\ framesRead' = r.framesRead
  /\ headerBuf' = r.headerBuf

\* A Read that returned res is noted in last, out and assoc.
NoteRead(cap, res) ==
  /\ last' = Note("Read", cap, res.err, res.pcm, res.eof, res.calls)
  /\ out' = IF assoc = "open" THEN out \o res.pcm ELSE out
  /\ assoc' = IF assoc = "open" /\ res.err # "nil" THEN "ended" ELSE assoc
  /\ UNCHANGED from

\* An Open that returned o is noted: a reader to call, or the error.
\* calls: the engine create calls it made.
Opened(o) ==
  IF o.err = "nil"
    THEN /\ pc' = "open" /\ decoder' = "set" /\ dec' = o.d
         /\ SetReader(o.r)
         /\ out' = <<>> /\ assoc' = "open"
         /\ last' = Note("Open", 0, "nil", <<>>, FALSE, o.creates)
         /\ UNCHANGED destroyed
    ELSE /\ pc' = "failed" /\ destroyed' = destroyed + o.destroys
         /\ last' = Note("Open", 0, o.err, <<>>, FALSE, o.creates)
         /\ UNCHANGED <<decoder, dec, srcPos, currentIdx, pcmBuffer, pcmOffset,
                        framesRead, headerBuf, out, assoc>>

\* OpenM4A on a file whose moov box gave info, samples and timescale: a reader,
\* or an error after the decoder it made is closed again.
M4AOpen ==
  /\ kind = "m4a" /\ pc = "start"
  /\ Opened(OpenM4A)
  /\ UNCHANGED <<kind, source, chunk, samples, timescale, from, info, enginePtr, args>>
  /\ UNCHANGED <<sharingVars, runtimeVars>>

\* OpenADTS: a reader, or an error after the decoder it made is closed again.
ADTSOpen ==
  /\ kind = "adts" /\ pc = "start"
  /\ Opened(OpenADTS)
  /\ UNCHANGED <<kind, source, chunk, samples, timescale, from, info, enginePtr, args>>
  /\ UNCHANGED <<sharingVars, runtimeVars>>

M4ARead(cap) ==
  /\ kind = "m4a" /\ pc = "open"
  /\ LET res == M4AReadOp(Reader, cap) IN SetReader(res.r) /\ NoteRead(cap, res)
  /\ UNCHANGED <<kind, pc, source, chunk, samples, timescale, decoder, dec, destroyed,
                 info, enginePtr, args>>
  /\ UNCHANGED <<sharingVars, runtimeVars>>

M4ASeek(position) ==
  /\ kind = "m4a" /\ pc = "open"
  /\ LET res == M4ASeekOp(Reader, position) IN
       /\ SetReader(res.r)
       /\ last' = Note("Seek", position, res.err, <<>>, FALSE, 0)
       /\ IF res.err = "nil" /\ decoder = "set"
            THEN assoc' = "open" /\ from' = res.r.currentIdx
            ELSE assoc' = "void" /\ from' = 0
  /\ out' = <<>>
  /\ UNCHANGED <<kind, pc, source, chunk, samples, timescale, decoder, dec, destroyed,
                 info, enginePtr, args>>
  /\ UNCHANGED <<sharingVars, runtimeVars>>

\* Close of either reader.
CloseStep ==
  /\ LET res == ReaderClose IN
       /\ decoder' = res.decoder
       /\ dec' = res.dec
       /\ destroyed' = destroyed + res.destroys
       /\ last' = Note("Close", 0, res.err, <<>>, FALSE, res.destroys)
  /\ out' = <<>> /\ assoc' = "void" /\ from' = 0
  /\ UNCHANGED <<kind, pc, source, srcPos, chunk, samples, timescale, currentIdx,
                 pcmBuffer, pcmOffset, framesRead, headerBuf, info, enginePtr, args>>
  /\ UNCHANGED <<sharingVars, runtimeVars>>

M4AClose == kind = "m4a" /\ pc = "open" /\ CloseStep

ADTSRead(cap) ==
  /\ kind = "adts" /\ pc = "open"
  /\ LET res == ADTSReadOp(Reader, cap) IN SetReader(res.r) /\ NoteRead(cap, res)
  /\ UNCHANGED <<kind, pc, source, chunk, samples, timescale, decoder, dec, destroyed,
                 info, enginePtr, args>>
  /\ UNCHANGED <<sharingVars, runtimeVars>>

ADTSClose == kind = "adts" /\ pc = "open" /\ CloseStep

Next ==
  \/ M4AOpen
  \/ ADTSOpen
  \/ \E cap \in 0..MaxCap : M4ARead(cap)
  \/ \E position \in Durations : M4ASeek(position)
  \/ M4AClose
  \/ \E cap \in 0..MaxCap : ADTSRead(cap)
  \/ ADTSClose

Spec == Init /\ [][Next]_vars

\* ------------------------------------------------------------ shared Decoder
\* A Decoder fresh from NewDecoder, with no reader around it.
InitDecoder ==
  /\ kind = "decoder"
  /\ source = <<>> /\ chunk = 0 /\ samples = <<>> /\ timescale = 0
  /\ info = NoInfo /\ enginePtr = 1 /\ args = NoArgs
  /\ NoReader
  /\ SharingIdle
  /\ RuntimeIdle

\* Goroutine p calls the Decoder: c = [op, arg]. afterClose: a Close had returned
\* before the call was made.
CallBegin(p, c) ==
  /\ gpc[p] = "idle" /\ ncalls[p] < MaxCalls
  /\ gpc' = [gpc EXCEPT ![p] = "waiting"]
  /\ call' = [call EXCEPT ![p] = [op |-> c.op, arg |-> c.arg,
                                  afterClose |-> "Close" \in returned]]
  /\ UNCHANGED <<readerRest, runtimeVars, dec, destroyed, mu, ret, ncalls, inEngine, engineLog,
                 returned>>

\* d.mu.Lock() returns to goroutine p.
CallLock(p) ==
  /\ gpc[p] = "waiting" /\ MuFree(p)
  /\ mu' = p
  /\ gpc' = [gpc EXCEPT ![p] = "locked"]
  /\ UNCHANGED <<readerRest, runtimeVars, dec, destroyed, call, ret, ncalls, inEngine, engineLog,
                 returned>>

\* The method body up to its engine call: the guards send the call back at once
\* (fn = "none"), or the engine is entered: allocations, then the engine function.
\* initDone: an Init had returned nil before.
CallBody(p, mem) ==
  /\ gpc[p] = "locked"
  /\ LET o == CallOutcome(dec, call[p], mem) IN
       /\ call' = [call EXCEPT ![p] = [op |-> @.op, arg |-> @.arg,
                                       afterClose |-> @.afterClose,
                                       initDone |-> "Init" \in returned,
                                       before |-> dec, o |-> o]]
       /\ gpc' = [gpc EXCEPT ![p] = IF o.fn = "none" THEN "leaving" ELSE "engine"]
       /\ inEngine' = IF o.fn = "none" THEN inEngine ELSE inEngine \cup {p}
       /\ engineLog' = IF o.fn \in {"none", "malloc"} THEN engineLog
                        ELSE Append(engineLog, o.fn)
  /\ UNCHANGED <<readerRest, runtimeVars, dec, destroyed, mu, ret, ncalls, returned>>

\* The engine call of goroutine p returns; the method stores what it learnt.
CallEngineReturn(p) ==
  /\ gpc[p] = "engine"
  /\ dec' = call[p].o.d
  /\ destroyed' = destroyed + (IF call[p].o.fn = "destroy" THEN 1 ELSE 0)
  /\ inEngine' = inEngine \ {p}
  /\ gpc' = [gpc EXCEPT ![p] = "leaving"]
  /\ UNCHANGED <<readerRest, runtimeVars, mu, call, ret, ncalls, engineLog, returned>>

\* The deferred d.mu.Unlock() and the return of the call of goroutine p.
CallReturn(p) ==
  /\ gpc[p] = "leaving"
  /\ mu' = 0
  /\ gpc' = [gpc EXCEPT ![p] = "idle"]
  /\ ncalls' = [ncalls EXCEPT ![p] = @ + 1]
  /\ ret' = [ret EXCEPT ![p] = [op |-> call[p].op, arg |-> call[p].arg,
                                afterClose |-> call[p].afterClose,
                                initDone |-> call[p].initDone,
                                before |-> call[p].before, after |-> dec,
                                err |-> call[p].o.err, pcm |-> call[p].o.pcm,
                                value |-> call[p].o.value, fn |-> call[p].o.fn]]
  /\ returned' = IF call[p].o.err = "nil" /\ call[p].op \in {"Init", "Close"}
                  THEN returned \cup {call[p].op} ELSE returned
  /\ UNCHANGED <<readerRest, runtimeVars, dec, destroyed, call, inEngine, engineLog>>

NextDecoder ==
  \E p \in Procs :
    \/ \E c \in DecoderCalls : CallBegin(p, c)
    \/ CallLock(p)
    \/ \E mem \in BOOLEAN : CallBody(p, mem)
    \/ CallEngineReturn(p)
    \/ CallReturn(p)

SpecDecoder == InitDecoder /\ [][NextDecoder]_vars

\* ------------------------------------------------------------ two Decoders
\* The calls the goroutines make on the two Decoders: Init with a good config,
\* Decode of a frame of one sample, Close.
PairCalls ==
  { [op |-> "Init", arg |-> <<18, 16>>], [op |-> "Decode", arg |-> <<5>>],
    [op |-> "Close", arg |-> <<>>] }

\* Two Decoders fresh from NewDecoder on the one wasmContext: dec[k] the fields
\* of Decoder k, mu[k] the goroutine that holds its mutex (0: nobody).
InitPair ==
  /\ kind = "pair"
  /\ source = <<>> /\ chunk = 0 /\ samples = <<>> /\ timescale = 0
  /\ info = NoInfo /\ enginePtr = 1 /\ args = NoArgs
  /\ pc = "start"
  /\ srcPos = 0 /\ currentIdx = 0 /\ pcmBuffer = <<>> /\ pcmOffset = 0
  /\ framesRead = 0 /\ headerBuf = NewReader.headerBuf
  /\ decoder = "nil" /\ destroyed = 0
  /\ last = Note("Start", 0, "nil", <<>>, FALSE, 0)
  /\ out = <<>> /\ assoc = "void" /\ from = 0
  /\ dec = [k \in Procs |-> NewDecoder]
  /\ mu = [k \in Procs |-> 0]
  /\ gpc = [p \in Procs |-> "idle"]
  /\ call = [p \in Procs |-> [op |-> "none"]]
  /\ ret = [p \in Procs |-> [op |-> "none"]]
  /\ ncalls = [p \in Procs |-> 0]
  /\ inEngine = {} /\ engineLog = <<>> /\ returned = {}
  /\ RuntimeIdle

\* Goroutine p calls Decoder k: c = [op, arg].
PairBegin(p, k, c) ==
  /\ kind = "pair" /\ gpc[p] = "idle" /\ ncalls[p] < MaxCalls
  /\ gpc' = [gpc EXCEPT ![p] = "waiting"]
  /\ call' = [call EXCEPT ![p] = [op |-> c.op, arg |-> c.arg, on |-> k]]
  /\ UNCHANGED <<readerRest, runtimeVars, dec, destroyed, mu, ret, ncalls, inEngine,
                 engineLog, returned>>

\* d.mu.Lock() of the Decoder it calls returns to goroutine p.
PairLock(p) ==
  /\ kind = "pair" /\ gpc[p] = "waiting" /\ mu[call[p].on] = 0
  /\ mu' = [mu EXCEPT ![call[p].on] = p]
  /\ gpc' = [gpc EXCEPT ![p] = "locked"]
  /\ UNCHANGED <<readerRest, runtimeVars, dec, destroyed, call, ret, ncalls, inEngine,
                 engineLog, returned>>

\* The method body up to its engine call on the shared module instance.
PairBody(p, mem) ==
  /\ kind = "pair" /\ gpc[p] = "locked"
  /\ LET o == CallOutcome(dec[call[p].on], call[p], mem) IN
       /\ call' = [call EXCEPT ![p] = [op |-> @.op, arg |-> @.arg, on |-> @.on,
                                       o |-> o]]
       /\ gpc' = [gpc EXCEPT ![p] = IF o.fn = "none" THEN "leaving" ELSE "engine"]
       /\ inEngine' = IF o.fn = "none" THEN inEngine ELSE inEngine \cup {p}
       /\ engineLog' = IF o.fn \in {"none", "malloc"} THEN engineLog
                        ELSE Append(engineLog, [fn |-> o.fn, on |-> call[p].on])
  /\ UNCHANGED <<readerRest, runtimeVars, dec, destroyed, mu, ret, ncalls, returned>>

\* The engine call of goroutine p returns; the method stores what it learnt.
PairEngineReturn(p) ==
  /\ kind = "pair" /\ gpc[p] = "engine"
  /\ dec' = [dec EXCEPT ![call[p].on] = call[p].o.d]
  /\ destroyed' = destroyed + (IF call[p].o.fn = "destroy" THEN 1 ELSE 0)
  /\ inEngine' = inEngine \ {p}
  /\ gpc' = [gpc EXCEPT ![p] = "leaving"]
  /\ UNCHANGED <<readerRest, runtimeVars, mu, call, ret, ncalls, engineLog, returned>>

\* The deferred d.mu.Unlock() and the return of the call of goroutine p.
PairReturn(p) ==
  /\ kind = "pair" /\ gpc[p] = "leaving"
  /\ mu' = [mu EXCEPT ![call[p].on] = 0]
  /\ gpc' = [gpc EXCEPT ![p] = "idle"]
  /\ ncalls' = [ncalls EXCEPT ![p] = @ + 1]
  /\ ret' = [ret EXCEPT ![p] = [op |-> call[p].op, arg |-> call[p].arg,
                                on |-> call[p].on, err |-> call[p].o.err,
                                pcm |-> call[p].o.pcm, fn |-> call[p].o.fn]]
  /\ UNCHANGED <<readerRest, runtimeVars, dec, destroyed, call, inEngine, engineLog,
                 returned>>

NextPair ==
  \E p \in Procs :
    \/ \E k \in Procs, c \in PairCalls : PairBegin(p, k, c)
    \/ PairLock(p)
    \/ \E mem \in BOOLEAN : PairBody(p, mem)
    \/ PairEngineReturn(p)
    \/ PairReturn(p)

SpecPair == InitPair /\ [][NextPair]_vars

\* ------------------------------------------------------------ WASM runtime
\* The package before its first use: no runtime, no reader, no Decoder in use.
InitRuntime ==
  /\ kind = "runtime"
  /\ source = <<>> /\ chunk = 0 /\ samples = <<>> /\ timescale = 0
  /\ info = NoInfo /\ enginePtr = 1 /\ args = NoArgs
  /\ NoReader
  /\ SharingIdle
  /\ RuntimeIdle

\* The package-level variables take the values of record g.
SetGlobals(g) ==
  /\ globalCtx' = g.globalCtx
  /\ globalOnce' = g.globalOnce
  /\ errGlobal' = g.errGlobal
  /\ globalReset' = g.globalReset

\* Goroutine p calls getWasmContext (as NewDecoder does) or Shutdown. seen: the
\* bodies that had run when the call was made.
RuntimeBegin(p, op) ==
  /\ gpc[p] = "idle" /\ ncalls[p] < MaxCalls
  /\ gpc' = [gpc EXCEPT ![p] = "waiting"]
  /\ call' = [call EXCEPT ![p] = [op |-> op, seen |-> Len(rtLog)]]
  /\ UNCHANGED <<readerRest, dec, destroyed, lockVars, runtimeVars, ret, ncalls>>

\* globalMu.Lock() returns to goroutine p.
RuntimeLock(p) ==
  /\ gpc[p] = "waiting" /\ globalMu = 0
  /\ globalMu' = p
  /\ gpc' = [gpc EXCEPT ![p] = "locked"]
  /\ UNCHANGED <<readerRest, dec, destroyed, lockVars, call, ret, ncalls, globalCtx,
                 globalOnce, errGlobal, globalReset, built, rtLog>>

\* The body of the call of goroutine p has o to return.
RuntimeDone(p, o) ==
  /\ SetGlobals(o.g)
  /\ built' = built + (IF o.inits > 0 /\ o.ctx # 0 THEN 1 ELSE 0)
  /\ rtLog' = Append(rtLog, [op |-> o.op, ctx |-> o.ctx, err |-> o.err,
                              inits |-> o.inits, closes |-> o.closes])
  /\ call' = [call EXCEPT ![p] = [op |-> o.op, seen |-> @.seen, ctx |-> o.ctx,
                                  err |-> o.err]]
  /\ gpc' = [gpc EXCEPT ![p] = "leaving"]
  /\ UNCHANGED <<readerRest, dec, destroyed, lockVars, ret, ncalls, globalMu>>

\* The body of getWasmContext; ok: initWasmContext, if it runs, succeeds.
GetWasmContextBody(p, ok) ==
  /\ gpc[p] = "locked" /\ call[p].op = "getWasmContext"
  /\ RuntimeDone(p, GetWasmContext(Globals, ok, built + 1))

\* The body of Shutdown; cerr: what runtime.Close returns, if it is called.
ShutdownBody(p, cerr) ==
  /\ gpc[p] = "locked" /\ call[p].op = "Shutdown"
  /\ RuntimeDone(p, ShutdownOp(Globals, cerr))

\* The deferred globalMu.Unlock() and the return of the call of goroutine p.
RuntimeReturn(p) ==
  /\ gpc[p] = "leaving"
  /\ globalMu' = 0
  /\ gpc' = [gpc EXCEPT ![p] = "idle"]
  /\ ncalls' = [ncalls EXCEPT ![p] = @ + 1]
  /\ ret' = [ret EXCEPT ![p] = call[p]]
  /\ UNCHANGED <<readerRest, dec, destroyed, lockVars, call, globalCtx, globalOnce,
                 errGlobal, globalReset, built, rtLog>>

NextRuntime ==
  \E p \in Procs :
    \/ \E op \in {"getWasmContext", "Shutdown"} : RuntimeBegin(p, op)
    \/ RuntimeLock(p)
    \/ \E ok \in BOOLEAN : GetWasmContextBody(p, ok)
    \/ \E cerr \in {"nil", "ErrClose"} : ShutdownBody(p, cerr)
    \/ RuntimeReturn(p)

SpecRuntime == InitRuntime /\ [][NextRuntime]_vars

\* ------------------------------------------------------------ NewDecoder
\* Shutdown has closed the runtime of context ctx.
Closed(ctx) == \E i \in 1..Len(rtLog) : rtLog[i].closes = <<ctx>>

\* No runtime yet, and goroutines about to call NewDecoder and Shutdown.
InitNewDecoder ==
  /\ kind = "newdecoder"
  /\ source = <<>> /\ chunk = 0 /\ samples = <<>> /\ timescale = 0
  /\ info = NoInfo /\ enginePtr = 1 /\ args = NoArgs
  /\ NoReader
  /\ SharingIdle
  /\ RuntimeIdle

\* The deferred globalMu.Unlock() of getWasmContext or Shutdown. Shutdown
\* returns, and so does NewDecoder when getWasmContext gave it an error; with a
\* context NewDecoder goes on to the create call.
NewDecoderUnlock(p) ==
  /\ kind = "newdecoder" /\ gpc[p] = "leaving"
  /\ globalMu' = 0
  /\ IF call[p].op = "getWasmContext" /\ call[p].err = "nil"
       THEN /\ gpc' = [gpc EXCEPT ![p] = "create"]
            /\ UNCHANGED <<ncalls, ret>>
       ELSE /\ gpc' = [gpc EXCEPT ![p] = "idle"]
            /\ ncalls' = [ncalls EXCEPT ![p] = @ + 1]
            /\ ret' = [ret EXCEPT ![p] = call[p]]
  /\ UNCHANGED <<readerRest, dec, destroyed, lockVars, call, globalCtx, globalOnce,
                 errGlobal, globalReset, built, rtLog>>

\* wctx.fnCreate.Call(ctx) of NewDecoder, under no lock: a call into the runtime
\* of the context getWasmContext returned. A closed runtime returns an error.
NewDecoderCreate(p) ==
  /\ kind = "newdecoder" /\ gpc[p] = "create"
  /\ engineLog' = Append(engineLog, [fn |-> "create", ctx |-> call[p].ctx,
                                      closed |-> Closed(call[p].ctx)])
  /\ call' = [call EXCEPT ![p] = [op |-> "NewDecoder", seen |-> @.seen, ctx |-> @.ctx,
                                  err |-> IF Closed(@.ctx) THEN "ErrClosed" ELSE "nil"]]
  /\ gpc' = [gpc EXCEPT ![p] = "created"]
  /\ UNCHANGED <<readerRest, dec, destroyed, runtimeVars, mu, ret, ncalls, inEngine,
                 returned>>

\* NewDecoder returns the error of the create call, or the Decoder it has bound
\* to the context. closed: the runtime of the context is closed by now.
NewDecoderReturn(p) ==
  /\ kind = "newdecoder" /\ gpc[p] = "created"
  /\ gpc' = [gpc EXCEPT ![p] = "idle"]
  /\ ncalls' = [ncalls EXCEPT ![p] = @ + 1]
  /\ ret' = [ret EXCEPT ![p] = [op |-> "NewDecoder", seen |-> call[p].seen,
                                ctx |-> call[p].ctx, err |-> call[p].err,
                                closed |-> Closed(call[p].ctx)]]
  /\ UNCHANGED <<readerRest, dec, destroyed, lockVars, runtimeVars, call>>

NextNewDecoder ==
  \E p \in Procs :
    \/ \E op \in {"getWasmContext", "Shutdown"} : RuntimeBegin(p, op)
    \/ RuntimeLock(p)
    \/ \E ok \in BOOLEAN : GetWasmContextBody(p, ok)
    \/ \E cerr \in {"nil", "ErrClose"} : ShutdownBody(p, cerr)
    \/ NewDecoderUnlock(p)
    \/ NewDecoderCreate(p)
    \/ NewDecoderReturn(p)

SpecNewDecoder == InitNewDecoder /\ [][NextNewDecoder]_vars

\* ------------------------------------------------------------ header helpers
\* The input of a helper: raw bytes; the encoding of header fields, alone or with
\* the two CRC bytes behind it; the arguments of buildAudioSpecificConfig.
InitCodec ==
  /\ kind = "codec"
  /\ \/ /\ source \in ShortInputs \cup UnsyncedInputs
        /\ args = [gen |-> "bytes"]
     \/ \E h \in HeaderFields, crc \in {<<>>, <<0, 0>>} :
          /\ source = EncodeHeader(h) \o crc
          /\ args = [gen |-> "header", h |-> h]
     \/ \E o \in 0..31, f \in 0..15, c \in 0..15 :
          /\ source = <<>>
          /\ args = [gen |-> "config", objectType |-> o, samplingFreqIndex |-> f,
                     channelConfig |-> c]
  /\ chunk = maxResyncBytes /\ samples = <<>> /\ timescale = 0
  /\ info = NoInfo /\ enginePtr = 1
  /\ NoReader
  /\ SharingIdle
  /\ RuntimeIdle

\* ParseADTSHeader(source).
ParseADTSHeaderStep ==
  /\ kind = "codec" /\ pc = "start" /\ args.gen \in {"bytes", "header"}
  /\ pc' = "done"
  /\ last' = [op |-> "ParseADTSHeader", res |-> ParseADTSHeader(source)]
  /\ UNCHANGED <<kind, source, srcPos, chunk, samples, timescale, currentIdx,
                 pcmBuffer, pcmOffset, framesRead, headerBuf, decoder, out, assoc,
                 from, info, enginePtr, args, dec, destroyed, sharingVars,
                 runtimeVars>>

\* readHeader of a new reader over the source.
ReadHeaderStep ==
  /\ kind = "codec" /\ pc = "start" /\ args.gen \in {"bytes", "header"}
  /\ pc' = "done"
  /\ LET h == ReadHeader(NewReader) IN
       /\ SetReader(h.r)
       /\ last' = [op |-> "readHeader", res |-> [header |-> h.header, err |-> h.err]]
  /\ UNCHANGED <<kind, source, chunk, samples, timescale, decoder, out, assoc, from,
                 info, enginePtr, args, dec, destroyed, sharingVars, runtimeVars>>

\* buildAudioSpecificConfig(objectType, samplingFreqIndex, channelConfig).
BuildConfigStep ==
  /\ kind = "codec" /\ pc = "start" /\ args.gen = "config"
  /\ pc' = "done"
  /\ last' = [op |-> "buildAudioSpecificConfig",
              res |-> buildAudioSpecificConfig(args.objectType, args.samplingFreqIndex,
                                               args.channelConfig)]
  /\ UNCHANGED <<kind, source, srcPos, chunk, samples, timescale, currentIdx,
                 pcmBuffer, pcmOffset, framesRead, headerBuf, decoder, out, assoc,
                 from, info, enginePtr, args, dec, destroyed, sharingVars,
                 runtimeVars>>

NextCodec == ParseADTSHeaderStep \/ ReadHeaderStep \/ BuildConfigStep

SpecCodec == InitCodec /\ [][NextCodec]_vars

\* ------------------------------------------------------------ resync
\* A desynchronized elementary stream behind a reader that delivers chunk bytes
\* per call; no reader is open yet.
InitResync ==
  /\ kind = "adts"
  /\ \E c \in ResyncCases : args = c /\ source = ResyncSource(c)
  /\ chunk \in Chunks
  /\ samples = <<>> /\ timescale = 0
  /\ info = NoInfo /\ enginePtr = 1
  /\ NoReader
  /\ SharingIdle
  /\ RuntimeIdle

\* The first step of OpenADTS on a stream damaged at its start: ar.readHeader().
\* at: where the source stood before.
ResyncReadHeader ==
  /\ kind = "adts" /\ pc = "start" /\ args.gen = "resync" /\ ~args.before
  /\ LET h == ReadHeader(NewReader) IN
       /\ SetReader(h.r)
       /\ pc' = IF h.err = "nil" THEN "header" ELSE "failed"
       /\ last' = [op |-> "readHeader", at |-> srcPos,
                   res |-> [header |-> h.header, err |-> h.err]]
  /\ UNCHANGED <<kind, source, chunk, samples, timescale, decoder, out, assoc, from,
                 info, enginePtr, args, dec, destroyed, sharingVars, runtimeVars>>

\* The step of OpenADTS that follows it: ar.readPayload(header). at: where the
\* header read started; start: where the source stood before the payload read.
ResyncReadPayload ==
  /\ kind = "adts" /\ pc = "header"
  /\ LET p == ReadPayload(Reader, last.res.header) IN
       /\ SetReader(p.r)
       /\ pc' = "payload"
       /\ last' = [op |-> "readPayload", at |-> last.at, start |-> srcPos,
                   header |-> last.res.header,
                   res |-> [payload |-> p.payload, err |-> p.err]]
  /\ UNCHANGED <<kind, source, chunk, samples, timescale, decoder, out, assoc, from,
                 info, enginePtr, args, dec, destroyed, sharingVars, runtimeVars>>

\* OpenADTS as a whole, on any of the streams.
ResyncOpen == args.gen = "resync" /\ ADTSOpen

\* ADTSReader.Read(pcm) with len(pcm) = cap; from: where the source stood before.
ResyncReadStep(cap) ==
  /\ kind = "adts" /\ pc = "open" /\ args.gen = "resync"
  /\ LET res == ADTSReadOp(Reader, cap) IN
       /\ SetReader(res.r)
       /\ last' = Note("Read", cap, res.err, res.pcm, res.eof, res.calls)
  /\ from' = srcPos
  /\ UNCHANGED <<kind, pc, source, chunk, samples, timescale, decoder, dec, destroyed,
                 out, assoc, info, enginePtr, args>>
  /\ UNCHANGED <<sharingVars, runtimeVars>>

NextResync ==
  \/ ResyncReadHeader
  \/ ResyncReadPayload
  \/ ResyncOpen
  \/ \E cap \in 0..MaxCap : ResyncReadStep(cap)

SpecResync == InitResync /\ [][NextResync]_vars

\* ------------------------------------------------------------ frame length
\* The frame lengths around the two header sizes, and the bytes of CRC.
TestLengths == 0..11
CRCBytes == { <<0, 0>>, <<171, 205>> }

\* The make-up of a stream with a frame of any declared length: a priming frame
\* before it or not, CRC bytes (none: the CRC-absent flag is set), the declared
\* frame length, and the bytes that follow the header.
FrameCases ==
  { [gen |-> "frame", before |-> b, crc |-> c, frameLength |-> len, avail |-> a] :
      <<b, c, len, a>> \in BOOLEAN \X ({<<>>} \cup CRCBytes) \X TestLengths \X (0..3) }

\* The bytes of the stream of case c.
FrameSource(c) ==
  (IF c.before THEN ADTSFrameBytes(1, [crc |-> FALSE, plen |-> 1, kind |-> 0]) ELSE <<>>)
    \o ADTSHeaderBytes(c.crc = <<>>, 1, 4, 2, c.frameLength) \o c.crc
    \o PayloadBytes(2, 1, c.avail)

InitFrame ==
  /\ kind = "adts"
  /\ \E c \in FrameCases : args = c /\ source = FrameSource(c)
  /\ chunk \in Chunks
  /\ samples = <<>> /\ timescale = 0
  /\ info = NoInfo /\ enginePtr = 1
  /\ NoReader
  /\ SharingIdle
  /\ RuntimeIdle

\* The first step of OpenADTS on a stream that starts with the frame:
\* ar.readHeader(). ar.readPayload(header) follows it (ResyncReadPayload).
FrameReadHeader ==
  /\ kind = "adts" /\ pc = "start" /\ args.gen = "frame" /\ ~args.before
  /\ LET h == ReadHeader(NewReader) IN
       /\ SetReader(h.r)
       /\ pc' = IF h.err = "nil" THEN "header" ELSE "failed"
       /\ last' = [op |-> "readHeader", at |-> srcPos,
                   res |-> [header |-> h.header, err |-> h.err]]
  /\ UNCHANGED <<kind, source, chunk, samples, timescale, decoder, out, assoc, from,
                 info, enginePtr, args, dec, destroyed, sharingVars, runtimeVars>>

\* OpenADTS as a whole, on any of the streams.
FrameOpen == args.gen = "frame" /\ ADTSOpen

\* ADTSReader.Read(pcm) with len(pcm) = cap; from: where the source stood before.
FrameRead(cap) ==
  /\ kind = "adts" /\ pc = "open" /\ args.gen = "frame"
  /\ LET res == ADTSReadOp(Reader, cap) IN
       /\ SetReader(res.r)
       /\ last' = Note("Read", cap, res.err, res.pcm, res.eof, res.calls)
  /\ from' = srcPos
  /\ UNCHANGED <<kind, pc, source, chunk, samples, timescale, decoder, dec, destroyed,
                 out, assoc, info, enginePtr, args>>
  /\ UNCHANGED <<sharingVars, runtimeVars>>

NextFrame ==
  \/ FrameReadHeader
  \/ ResyncReadPayload
  \/ FrameOpen
  \/ \E cap \in 0..MaxCap : FrameRead(cap)

SpecFrame == InitFrame /\ [][NextFrame]_vars

\* ------------------------------------------------------------ table builder
\* The four tables parseM4A has gathered from the boxes of the audio track.
InitTable ==
  /\ kind = "table"
  /\ \E z \in StszBoxes, co \in ChunkOffsetTables, sc \in StscTables, ts \in SttsTables :
       args = [gen |-> "table", stsz |-> z, chunkOffsets |-> co, stscEntries |-> sc,
               sttsEntries |-> ts]
  /\ source = <<>> /\ chunk = maxResyncBytes /\ samples = <<>> /\ timescale = 0
  /\ info = NoInfo /\ enginePtr = 1
  /\ NoReader
  /\ SharingIdle
  /\ RuntimeIdle

\* parseM4A, the stsz box: sampleSizes is filled.
StszStep ==
  /\ kind = "table" /\ pc = "start"
  /\ pc' = "sizes"
  /\ last' = [op |-> "stsz", sampleSizes |-> StszSizes(args.stsz)]
  /\ UNCHANGED <<kind, source, srcPos, chunk, samples, timescale, currentIdx,
                 pcmBuffer, pcmOffset, framesRead, headerBuf, decoder, out, assoc,
                 from, info, enginePtr, args, dec, destroyed, sharingVars,
                 runtimeVars>>

\* parseM4A, after the boxes: info.samples = buildSampleTable(...).
BuildTableStep ==
  /\ kind = "table" /\ pc = "sizes"
  /\ pc' = "built"
  /\ samples' = buildSampleTable(last.sampleSizes, args.chunkOffsets,
                                 args.stscEntries, args.sttsEntries)
  /\ last' = [op |-> "buildSampleTable", sampleSizes |-> last.sampleSizes,
              samplesInChunk |->
                [c \in 1..Len(args.chunkOffsets) |->
                   SamplesInChunk(args.stscEntries, Len(args.stscEntries), c)]]
  /\ UNCHANGED <<kind, source, srcPos, chunk, timescale, currentIdx,
                 pcmBuffer, pcmOffset, framesRead, headerBuf, decoder, out, assoc,
                 from, info, enginePtr, args, dec, destroyed, sharingVars,
                 runtimeVars>>

NextTable == StszStep \/ BuildTableStep

SpecTable == InitTable /\ [][NextTable]_vars

\* ------------------------------------------------------------ box traversal
\* Most boxes the callback of parseM4A is called for in one file.
MaxBoxes == 7

\* parseM4A, the stsz box, with the sampleSizes gathered so far: a fixed sample
\* size is appended SampleCount times, a list of sizes takes their place.
StszInto(sampleSizes, stsz) ==
  IF stsz.SampleSize # 0
    THEN sampleSizes \o [i \in 1..stsz.SampleCount |-> stsz.SampleSize]
    ELSE stsz.EntrySize

\* The locals of parseM4A before the first box. boxes counts the callbacks and
\* trak the trak boxes among them; sound holds the tracks with a sound handler;
\* sizesOf, offsetsOf, stscOf and sttsOf name, for each entry of the table
\* they stand beside, the track whose box it was read from.
ParseStart ==
  [op |-> "parseM4A", boxes |-> 0, trak |-> 0, sound |-> {},
   audioTrackFound |-> FALSE, currentTrackTimescale |-> 0,
   sampleSizes |-> <<>>, chunkOffsets |-> <<>>, stscEntries |-> <<>>,
   sttsEntries |-> <<>>,
   sizesOf |-> <<>>, offsetsOf |-> <<>>, stscOf |-> <<>>, sttsOf |-> <<>>]

\* n entries read from a box of the current track.
OfTrack(n) == [i \in 1..n |-> last.trak]

\* info := &m4aInfo{} and the temporary storage of parseM4A, all empty.
InitParse ==
  /\ kind = "parse"
  /\ source = <<>> /\ chunk = maxResyncBytes /\ samples = <<>> /\ timescale = 0
  /\ info = [err |-> "nil", config |-> <<>>, sampleRate |-> 0, channels |-> 0]
  /\ enginePtr = 1 /\ args = NoArgs
  /\ pc = "start"
  /\ srcPos = 0 /\ currentIdx = 0 /\ pcmBuffer = <<>> /\ pcmOffset = 0
  /\ framesRead = 0 /\ headerBuf = NewReader.headerBuf
  /\ decoder = "nil" /\ dec = NewDecoder /\ destroyed = 0
  /\ last = ParseStart
  /\ out = <<>> /\ assoc = "void" /\ from = 0
  /\ SharingIdle
  /\ RuntimeIdle

\* What no callback of parseM4A changes.
parseRest == <<kind, pc, source, srcPos, chunk, samples, currentIdx, pcmBuffer,
               pcmOffset, framesRead, headerBuf, decoder, out, assoc, from,
               enginePtr, args, dec, destroyed, sharingVars, runtimeVars>>

\* ReadBoxStructure calls the callback for one more box.
NextBox == kind = "parse" /\ pc = "start" /\ last.boxes < MaxBoxes

\* The callback is called for a box below a trak box: the boxes of mdia and
\* stbl are reached through the trak box that holds them.
InTrak == NextBox /\ last.trak >= 1

\* case mp4.BoxTypeTrak(): the per-track state is reset.
ParseTrak ==
  /\ NextBox
  /\ last' = [last EXCEPT !.boxes = @ + 1, !.trak = @ + 1,
                          !.audioTrackFound = FALSE, !.currentTrackTimescale = 0]
  /\ UNCHANGED <<parseRest, info, timescale>>

\* case mp4.BoxTypeMdhd(): the timescale of the track is kept for its hdlr box.
ParseMdhd(ts) ==
  /\ InTrak
  /\ last' = [last EXCEPT !.boxes = @ + 1, !.currentTrackTimescale = ts]
  /\ UNCHANGED <<parseRest, info, timescale>>

\* case mp4.BoxTypeHdlr(): a sound handler makes the track the audio track.
ParseHdlr(handlerType) ==
  /\ NextBox
  /\ IF handlerType = "soun"
       THEN /\ last' = [last EXCEPT !.boxes = @ + 1, !.audioTrackFound = TRUE,
                                    !.sound = @ \cup {last.trak}]
            /\ timescale' = last.currentTrackTimescale
       ELSE /\ last' = [last EXCEPT !.boxes = @ + 1]
            /\ UNCHANGED timescale
  /\ UNCHANGED <<parseRest, info>>

\* case mp4.BoxTypeMp4a(): sample rate (16.16 fixed point) and channel count.
ParseMp4a(rate, channelCount) ==
  /\ InTrak
  /\ last' = [last EXCEPT !.boxes = @ + 1]
  /\ info' = IF last.audioTrackFound
               THEN [info EXCEPT !.sampleRate = rate \div 65536,
                                 !.channels = channelCount % 256]
               ELSE info
  /\ UNCHANGED <<parseRest, timescale>>

\* case mp4.BoxTypeEsds(): data is the DecoderSpecificInfo of the box (tag
\* 0x05), empty when the box has none.
ParseEsds(data) ==
  /\ InTrak
  /\ last' = [last EXCEPT !.boxes = @ + 1]
  /\ info' = IF last.audioTrackFound /\ Len(data) > 0
               THEN [info EXCEPT !.config = data] ELSE info
  /\ UNCHANGED <<parseRest, timescale>>

\* case mp4.BoxTypeStsz()
ParseStsz(stsz) ==
  /\ InTrak
  /\ last' = IF ~last.audioTrackFound THEN [last EXCEPT !.boxes = @ + 1]
             ELSE [last EXCEPT
                     !.boxes = @ + 1,
                     !.sampleSizes = StszInto(@, stsz),
                     !.sizesOf = IF stsz.SampleSize # 0
                                   THEN @ \o OfTrack(stsz.SampleCount)
                                   ELSE OfTrack(Len(stsz.EntrySize))]
  /\ UNCHANGED <<parseRest, info, timescale>>

\* case mp4.BoxTypeStco(): each 32-bit offset is appended to chunkOffsets.
ParseStco(chunkOffset) ==
  /\ InTrak
  /\ last' = IF ~last.audioTrackFound THEN [last EXCEPT !.boxes = @ + 1]
             ELSE [last EXCEPT !.boxes = @ + 1,
                               !.chunkOffsets = @ \o chunkOffset,
                               !.offsetsOf = @ \o OfTrack(Len(chunkOffset))]
  /\ UNCHANGED <<parseRest, info, timescale>>

\* case mp4.BoxTypeCo64(): chunkOffsets = co64.ChunkOffset.
ParseCo64(chunkOffset) ==
  /\ InTrak
  /\ last' = IF ~last.audioTrackFound THEN [last EXCEPT !.boxes = @ + 1]
             ELSE [last EXCEPT !.boxes = @ + 1,
                               !.chunkOffsets = chunkOffset,
                               !.offsetsOf = OfTrack(Len(chunkOffset))]
  /\ UNCHANGED <<parseRest, info, timescale>>

\* case mp4.BoxTypeStsc(): stscEntries = stsc.Entries.
ParseStsc(entries) ==
  /\ InTrak
  /\ last' = IF ~last.audioTrackFound THEN [last EXCEPT !.boxes = @ + 1]
             ELSE [last EXCEPT !.boxes = @ + 1,
                               !.stscEntries = entries,
                               !.stscOf = OfTrack(Len(entries))]
  /\ UNCHANGED <<parseRest, info, timescale>>

\* case mp4.BoxTypeStts(): sttsEntries = stts.Entries.
ParseStts(entries) ==
  /\ InTrak
  /\ last' = IF ~last.audioTrackFound THEN [last EXCEPT !.boxes = @ + 1]
             ELSE [last EXCEPT !.boxes = @ + 1,
                               !.sttsEntries = entries,
                               !.sttsOf = OfTrack(Len(entries))]
  /\ UNCHANGED <<parseRest, info, timescale>>

\* After the last box: no config, no audio track; else the sample table is
\* built from the four tables.
ParseEnd ==
  /\ kind = "parse" /\ pc = "start"
  /\ IF Len(info.config) = 0
       THEN /\ pc' = "failed"
            /\ info' = [info EXCEPT !.err = "ErrNoAudioTrack"]
            /\ UNCHANGED samples
       ELSE /\ pc' = "parsed"
            /\ samples' = buildSampleTable(last.sampleSizes, last.chunkOffsets,
                                           last.stscEntries, last.sttsEntries)
            /\ UNCHANGED info
  /\ UNCHANGED <<kind, source, srcPos, chunk, timescale, currentIdx, pcmBuffer,
                 pcmOffset, framesRead, headerBuf, decoder, last, out, assoc, from,
                 enginePtr, args, dec, destroyed, sharingVars, runtimeVars>>

NextParse ==
  \/ ParseTrak
  \/ ParseMdhd(SecondTicks)
  \/ \E t \in {"soun", "vide"} : ParseHdlr(t)
  \/ ParseMp4a(SecondTicks * 65536, 2)
  \/ \E data \in {<<>>, <<18, 16>>} : ParseEsds(data)
  \/ \E stsz \in { [SampleSize |-> 2, SampleCount |-> 1, EntrySize |-> <<>>],
                    [SampleSize |-> 0, SampleCount |-> 1, EntrySize |-> <<3>>] } :
        ParseStsz(stsz)
  \/ ParseStco(<<2>>)
  \/ ParseCo64(<<6>>)
  \/ ParseStsc(<<[FirstChunk |-> 1, SamplesPerChunk |-> 1]>>)
  \/ ParseStts(<<[SampleCount |-> 1, SampleDelta |-> 5]>>)
  \/ ParseEnd

SpecParse == InitParse /\ [][NextParse]_vars

\* ------------------------------------------------------------ container open
\* The tables of a track with at most one sample and one chunk: the sample sizes
\* or the chunk offsets may be missing.
SmallTables ==
  { [gen |-> "table", stsz |-> z, chunkOffsets |-> co, stscEntries |-> sc,
     sttsEntries |-> ts] :
      z \in { b \in StszBoxes : b.SampleCount <= 1 },
      co \in { t \in ChunkOffsetTables : Len(t) <= 1 },
      sc \in { <<>>, <<[FirstChunk |-> 1, SamplesPerChunk |-> 2]>> },
      ts \in { <<>>, <<[SampleCount |-> 1, SampleDelta |-> 5]>> } }

\* OpenM4A over a file whose boxes give the tables, the timescale and what
\* parseM4A finds of the codec configuration.
InitOpenTable ==
  /\ kind = "table"
  /\ args \in SmallTables
  /\ timescale \in Timescales
  /\ info \in M4AInfos
  /\ enginePtr \in {0, 1}
  /\ source = <<>> /\ chunk = maxResyncBytes /\ samples = <<>>
  /\ NoReader
  /\ SharingIdle
  /\ RuntimeIdle

\* OpenM4A after parseM4A has built the table.
TableOpen ==
  /\ kind = "table" /\ pc = "built"
  /\ Opened(OpenM4A)
  /\ UNCHANGED <<kind, source, chunk, samples, timescale, from, info, enginePtr, args>>
  /\ UNCHANGED <<sharingVars, runtimeVars>>

\* M4AReader.Read on the reader OpenM4A returned.
TableRead(cap) ==
  /\ kind = "table" /\ pc = "open"
  /\ LET res == M4AReadOp(Reader, cap) IN SetReader(res.r) /\ NoteRead(cap, res)
  /\ UNCHANGED <<kind, pc, source, chunk, samples, timescale, decoder, dec, destroyed,
                 info, enginePtr, args>>
  /\ UNCHANGED <<sharingVars, runtimeVars>>

NextOpenTable ==
  \/ StszStep
  \/ BuildTableStep
  \/ TableOpen
  \/ \E cap \in 0..MaxCap : TableRead(cap)

SpecOpenTable == InitOpenTable /\ [][NextOpenTable]_vars

\* ------------------------------------------------------------ properties
\* A buffer large enough for the whole stream: no frame is shorter than a byte
\* and none decodes to more than 2 samples.
WholeCap == (2 * Len(source)) + 1

\* What one Read with a buffer of WholeCap samples copies, called on the reader as
\* Open returned it (from = 0), or as a Seek to sample index from left it.
WholeStream ==
  IF kind = "m4a"
  THEN M4AReadLoop([NewReader EXCEPT !.currentIdx = from], dec, WholeCap, <<>>, 0).pcm
  ELSE ADTSReadLoop(OpenADTS.r, dec, WholeCap, <<>>, 0).pcm

\* C1: buffering associativity. While consecutive Reads (any capacities, no Seek
\* or Close between them) return nil, the concatenation of what they returned is
\* a prefix of what one Read with a buffer large enough for the whole stream
\* returns; once a Read reports end-of-stream (or an error) the two are equal.
C1_BufferingAssociativity ==
  /\ assoc = "open" => IsPrefix(out, WholeStream)
  /\ assoc = "ended" => out = WholeStream

\* Reads from Open to end-of-stream that took more than one call to drain a
\* stream longer than any single buffer.
C1_Witness ==
  /\ assoc = "ended" /\ from = 0 /\ last.op = "Read" /\ last.err = "EOF"
  /\ Len(out) > MaxCap

\* The source has nothing left: the sample index is at the end of the table, or
\* the byte stream is read to its end.
Exhausted ==
  IF kind = "m4a" THEN currentIdx >= Len(samples) ELSE srcPos >= Len(source)

\* C2: a Read with a buffer of C >= 1 samples that returns nil returned exactly C
\* samples, unless the source is exhausted; a frame that decodes to zero samples
\* does not end the call with a short count.
C2_FullUnlessExhausted ==
  (last.op = "Read" /\ last.arg >= 1 /\ last.err = "nil")
    => (last.n = last.arg \/ Exhausted)

\* A Read that filled the caller's buffer although it decoded more frames than it
\* returned samples: one of the frames it decoded was a zero-sample frame.
C2_Witness ==
  /\ last.op = "Read" /\ last.arg >= 1 /\ last.err = "nil"
  /\ last.n = last.arg /\ last.calls > last.n

\* C3: end-of-source handling as the specification states it. A Read during which
\* the source ran out (the sample index reached the table length; the byte source
\* reported end-of-file while a header or a payload was being read) returns its
\* count with a nil error if it copied at least one sample, and (0, end-of-stream)
\* if it copied none.
C3_EndOfSource ==
  (last.op = "Read" /\ last.eof)
    => (IF last.n >= 1 THEN last.err = "nil" ELSE last.err = "EOF")

\* T of the specification: floor(target * timescale / 1 second), exactly.
ExactTarget(position) == (position * timescale) \div SecondTicks

RECURSIVE LeastOver(_, _)
\* The smallest index >= i whose descriptors 0..index have durations that sum to
\* more than T; Len(samples) if there is none.
LeastOver(i, T) ==
  IF i >= Len(samples) THEN Len(samples)
  ELSE IF SumDur(samples, i + 1) > T THEN i
  ELSE LeastOver(i + 1, T)

\* C4: Seek index selection as the specification states it. A successful
\* Seek(target), target >= 0, leaves the sample index at the smallest i such that
\* the durations of descriptors 0..i sum to more than T, and at len(table) when
\* there is no such i.
C4_SeekIndexSelection ==
  (pc = "open" /\ last.op = "Seek" /\ last.err = "nil" /\ last.arg >= 0)
    => currentIdx = LeastOver(0, ExactTarget(last.arg))

\* C5: Seek monotonicity as the specification states it. Of two successful Seeks
\* in a row with targets 0 <= t1 <= t2, the second leaves a sample index and a
\* Position() no smaller than the first.
C5_SeekMonotonic ==
  [][(/\ last.op = "Seek" /\ last.err = "nil"
      /\ last'.op = "Seek" /\ last'.err = "nil"
      /\ 0 <= last.arg /\ last.arg <= last'.arg)
       => (/\ currentIdx <= currentIdx'
           /\ Position(currentIdx) <= Position(currentIdx'))]_vars

\* C6: seeking past the end as the specification states it. A Seek on a reader
\* with timing information to a target beyond the total duration returns nil and
\* leaves the sample index one past the last descriptor.
C6_SeekPastEnd ==
  (/\ pc = "open" /\ last.op = "Seek" /\ timescale > 0
   /\ last.arg * timescale > SumDur(samples, Len(samples)) * SecondTicks)
    => (last.err = "nil" /\ currentIdx = Len(samples))

\* The samples the descriptor at sample index k decodes to; none if there is no
\* such descriptor or its data cannot be read or decoded.
DescriptorPCM(k) ==
  IF k >= Len(samples) THEN <<>>
  ELSE IF M4AFetch(samples[k + 1]).err # "nil" THEN <<>>
  ELSE DecoderDecode(dec, M4AFetch(samples[k + 1]).data).pcm

RECURSIVE FirstNonEmpty(_)
\* The samples of the first descriptor at or after sample index k that decodes
\* to at least one sample; none if there is no such descriptor.
FirstNonEmpty(k) ==
  IF k >= Len(samples) THEN <<>>
  ELSE IF Len(DescriptorPCM(k)) > 0 THEN DescriptorPCM(k)
  ELSE FirstNonEmpty(k + 1)

\* C7 (amended): a successful Seek leaves the leftover buffer empty, and the
\* first sample the Reads after it return is the first sample of the first
\* descriptor at or after the selected index that decodes to at least one sample
\* (descriptors that decode to zero samples are skipped).
C7_SeekDiscardsLeftover ==
  /\ (last.op = "Seek" /\ last.err = "nil") => (pcmBuffer = <<>> /\ pcmOffset = 0)
  /\ (kind = "m4a" /\ assoc # "void" /\ Len(out) >= 1)
       => out[1] = FirstNonEmpty(from)[1]

\* Reads after a Seek to an index >= 1 returned samples although the descriptor
\* at the selected index decodes to none.
C7_Witness ==
  /\ kind = "m4a" /\ assoc # "void" /\ from >= 1 /\ Len(out) >= 1
  /\ Len(DescriptorPCM(from)) = 0

\* C7 as the specification states it: the first sample returned after a
\* successful Seek is the first sample produced by decoding the descriptor at
\* the selected index.
C7_FirstOfSelected ==
  (kind = "m4a" /\ assoc # "void" /\ from >= 1 /\ Len(out) >= 1)
    => (Len(DescriptorPCM(from)) >= 1 /\ out[1] = DescriptorPCM(from)[1])

\* C8: a Seek on a reader whose timescale is 0 returns ErrSeekUnavailable,
\* whatever the target, and leaves the sample index and the leftover buffer as
\* they were.
C8_SeekUnavailable ==
  [][(timescale = 0 /\ last'.op = "Seek")
       => (/\ last'.err = "ErrSeekUnavailable"
           /\ currentIdx' = currentIdx
           /\ pcmBuffer' = pcmBuffer /\ pcmOffset' = pcmOffset)]_vars

\* A Seek was refused on a reader without timing information that is past its
\* first sample and holds a leftover.
C8_Witness ==
  /\ timescale = 0 /\ last.op = "Seek" /\ last.err = "ErrSeekUnavailable"
  /\ currentIdx > 0 /\ pcmOffset > 0 /\ pcmOffset < Len(pcmBuffer)

\* C9: over every sequence of Read, Seek and Close calls on a reader the engine
\* handle is destroyed exactly once, by the first Close: not before it, and every
\* Close returns nil with the count of destroy calls standing at one.
C9_CloseOnce ==
  pc = "open" =>
    /\ destroyed = (IF decoder = "nil" THEN 1 ELSE 0)
    /\ last.op = "Close" => (last.err = "nil" /\ decoder = "nil" /\ destroyed = 1)

\* A Close that was not the first: it made no engine call and returned nil.
C9_Witness ==
  /\ pc = "open" /\ last.op = "Close" /\ last.calls = 0 /\ last.err = "nil"
  /\ destroyed = 1

\* C10: after Close as the specification states it: a Read or a Seek on the
\* closed reader fails and copies no samples.
C10_ClosedRejects ==
  (pc = "open" /\ decoder = "nil" /\ last.op \in {"Read", "Seek"})
    => (last.err # "nil" /\ last.n = 0)

\* C11: an OpenADTS or OpenM4A that fails at any step (header read or resync,
\* sampling frequency index, container parse, missing codec configuration, engine
\* creation, engine init, reading or decoding the priming frame) returns no
\* reader, and the engine handles it created (last.calls) are each destroyed once
\* by the time it returns; an Open that succeeds destroys nothing.
C11_FailedOpenReleases ==
  /\ pc = "failed" => /\ last.op = "Open" /\ last.err # "nil"
                        /\ decoder = "nil"
                        /\ destroyed = last.calls
  /\ (pc = "open" /\ last.op = "Open") => /\ last.err = "nil" /\ decoder = "set"
                                           /\ last.calls = 1 /\ destroyed = 0

\* An OpenADTS that failed on the priming frame (it could not be read in full, or
\* not be decoded) after the engine handle was created and initialized.
C11_Witness ==
  /\ kind = "adts" /\ pc = "failed" /\ last.calls = 1 /\ destroyed = 1
  /\ last.err \in {"ErrUnexpectedEOF", "EOF", "ErrInvalidADTS"}

\* C12: a call made on the Decoder after a Close has returned: Init and Decode
\* return ErrDecoderClosed whatever the argument (an empty config or frame too)
\* and whether or not the Decoder had been initialized, and make no engine call;
\* Close returns nil, again without an engine call.
C12_ClosedDecoderRejects ==
  \A p \in Procs :
    (ret[p].op # "none" /\ ret[p].afterClose) =>
      /\ ret[p].op \in {"Init", "Decode"}
           => (ret[p].err = "ErrDecoderClosed" /\ ret[p].fn = "none")
      /\ ret[p].op = "Close" => (ret[p].err = "nil" /\ ret[p].fn = "none")

\* A Decode of an empty frame, made after the Close of an initialized Decoder
\* had returned, came back with ErrDecoderClosed.
C12_Witness ==
  \E p \in Procs :
    /\ ret[p].op = "Decode" /\ ret[p].afterClose /\ ret[p].arg = <<>>
    /\ ret[p].before.initialized /\ ret[p].err = "ErrDecoderClosed"

\* C13: a Decode that runs on a Decoder that is not closed, before any Init has
\* returned nil, returns ErrNotInitialized without an engine call; an Init that
\* returns an error (no config, the engine rejects it, an allocation fails, the
\* Decoder is closed) leaves initialized, sampleRate and channels as they were.
C13_InitBeforeDecode ==
  \A p \in Procs :
    /\ (ret[p].op = "Decode" /\ ~ret[p].initDone /\ ~ret[p].before.closed)
         => (ret[p].err = "ErrNotInitialized" /\ ret[p].fn = "none")
    /\ (ret[p].op = "Init" /\ ret[p].err # "nil")
         => /\ ret[p].after.initialized = ret[p].before.initialized
            /\ ret[p].after.sampleRate = ret[p].before.sampleRate
            /\ ret[p].after.channels = ret[p].before.channels

\* A Decode of a good frame came back with ErrNotInitialized after an Init that
\* the engine rejected.
C13_Witness ==
  \E p, q \in Procs :
    /\ ret[p].op = "Decode" /\ ret[p].arg # <<>> /\ ret[p].err = "ErrNotInitialized"
    /\ ret[q].op = "Init" /\ ret[q].fn = "init" /\ ret[q].err = "ErrInvalidConfig"

\* C14: engine re-initialization as the specification states it. The first
\* getWasmContext to run after a Shutdown runs initWasmContext (it builds a new
\* runtime), and no getWasmContext returns a context whose runtime an earlier
\* Shutdown closed.
C14_ShutdownReinitializes ==
  /\ \A j \in 2..Len(rtLog) :
       (rtLog[j - 1].op = "Shutdown" /\ rtLog[j].op = "getWasmContext")
         => rtLog[j].inits = 1
  /\ \A i, j \in 1..Len(rtLog) :
       (i < j /\ rtLog[j].op = "getWasmContext" /\ rtLog[j].ctx # 0)
         => rtLog[i].closes # <<rtLog[j].ctx>>

\* C15: of the getWasmContext calls that run before any Shutdown, the first runs
\* initWasmContext and no other does, and all return the same context and the
\* same error.
C15_InitOnce ==
  /\ (Len(rtLog) >= 1 /\ rtLog[1].op = "getWasmContext") => rtLog[1].inits = 1
  /\ \A i, j \in 1..Len(rtLog) :
       (/\ i < j
        /\ rtLog[i].op = "getWasmContext"
        /\ \A k \in 1..j : rtLog[k].op # "Shutdown")
         => /\ rtLog[j].inits = 0
            /\ rtLog[j].ctx = rtLog[i].ctx /\ rtLog[j].err = rtLog[i].err
  /\ \A p \in Procs :
       ret[p].op = "getWasmContext"
         => \E i \in 1..Len(rtLog) :
              /\ rtLog[i].op = "getWasmContext"
              /\ rtLog[i].ctx = ret[p].ctx /\ rtLog[i].err = ret[p].err

\* Two goroutines called getWasmContext before either had returned; the
\* initialization failed, and both got its error.
C15_Witness ==
  /\ Len(rtLog) = 2
  /\ \A p \in Procs :
       /\ ret[p].op = "getWasmContext" /\ ret[p].seen = 0
       /\ ret[p].ctx = 0 /\ ret[p].err = "ErrInit"

\* C16: a Shutdown that runs right after another Shutdown returns nil and closes
\* nothing, and no runtime is closed by two Shutdowns.
C16_ShutdownIdempotent ==
  /\ \A j \in 2..Len(rtLog) :
       (rtLog[j - 1].op = "Shutdown" /\ rtLog[j].op = "Shutdown")
         => (rtLog[j].err = "nil" /\ rtLog[j].closes = <<>>)
  /\ \A i, j \in 1..Len(rtLog) :
       (i < j /\ rtLog[i].closes # <<>>) => rtLog[i].closes # rtLog[j].closes

\* A Shutdown whose runtime.Close returned an error, then a second Shutdown,
\* which returned nil.
C16_Witness ==
  /\ Len(rtLog) = 3 /\ rtLog[1].ctx # 0
  /\ rtLog[2].op = "Shutdown" /\ rtLog[2].err = "ErrClose"
  /\ rtLog[3].op = "Shutdown" /\ rtLog[3].err = "nil"
  /\ \E p \in Procs : ret[p].op = "Shutdown" /\ ret[p].seen = 2 /\ ret[p].err = "nil"

\* C17: whatever way the calls of the goroutines on one Decoder interleave, at
\* most one of them is inside an engine call for the Decoder's handle, and no
\* engine decode call is issued for the handle after its destroy call.
C17_EngineCallsSerialized ==
  /\ Cardinality(inEngine) <= 1
  /\ \A i, j \in 1..Len(engineLog) :
       (i < j /\ engineLog[i] = "destroy") => engineLog[j] # "decode"

\* A Decode on the initialized Decoder raced a Close and lost: it was called
\* before any Close had returned and came back with ErrDecoderClosed, while
\* another Decode had gone through to the engine before the destroy.
C17_Witness ==
  /\ \E p \in Procs :
       /\ ret[p].op = "Decode" /\ ~ret[p].afterClose /\ ret[p].arg = <<5>>
       /\ ret[p].err = "ErrDecoderClosed"
  /\ engineLog = <<"init", "decode", "destroy">>

\* C18: ParseADTSHeader returns ErrInvalidADTS for every input shorter than 7
\* bytes, whatever its first bytes are, and ErrADTSSyncNotFound for every input
\* of at least 7 bytes whose first 12 bits are not all set.
C18_ParseRejects ==
  last.op = "ParseADTSHeader" =>
    /\ Len(source) < 7 => last.res.err = "ErrInvalidADTS"
    /\ (Len(source) >= 7 /\ ~(source[1] = 255 /\ source[2] >= 240))
         => last.res.err = "ErrADTSSyncNotFound"

\* ParseADTSHeader turned down an input that is too short although it starts
\* with a sync word.
C18_Witness ==
  /\ last.op = "ParseADTSHeader" /\ source = <<255, 241>>
  /\ last.res.err = "ErrInvalidADTS"

\* The header fields h came back from ParseADTSHeader.
ParsedBack(h) ==
  last.res = Parsed(adtsSampleRates[h.samplingFreqIndex + 1], h.channelConfig,
                    h.frameLength, "nil")

\* The header fields h came back from readHeader.
ReadBack(h) ==
  /\ last.res.err = "nil"
  /\ adtsSampleRates[last.res.header.samplingFreqIndex + 1]
       = adtsSampleRates[h.samplingFreqIndex + 1]
  /\ last.res.header.samplingFreqIndex = h.samplingFreqIndex
  /\ last.res.header.channelConfig = h.channelConfig
  /\ last.res.header.frameLength = h.frameLength

\* C19 (amended): parsing is a left inverse of encoding. For every sampling
\* frequency index, channel configuration 0..7 and 13-bit frame length, and any
\* values of the other header bits, ParseADTSHeader of the 7-byte encoding
\* returns the rate of the table, the channel count and the frame length; so
\* does readHeader, provided that the two CRC bytes can be read after the header
\* when its protection_absent bit is 0.
C19_ParseInvertsEncode ==
  args.gen = "header" =>
    /\ last.op = "ParseADTSHeader" => ParsedBack(args.h)
    /\ (last.op = "readHeader" /\ (args.h.protectionAbsent = 1 \/ Len(source) >= 9))
         => ReadBack(args.h)

\* readHeader gave back the largest fields of a header with the protection_absent
\* bit clear and its CRC bytes behind it.
C19_Witness ==
  /\ args.gen = "header" /\ last.op = "readHeader" /\ Len(source) = 9
  /\ args.h.protectionAbsent = 0 /\ args.h.frameLength = 8191
  /\ args.h.channelConfig = 7 /\ args.h.samplingFreqIndex = 12
  /\ last.res.err = "nil" /\ last.res.header.frameLength = 8191

\* C19 as the specification states it: both ParseADTSHeader and readHeader, given
\* the 7-byte encoding, return the fields, whatever the other header bits are.
C19_BothParsersInvert ==
  (args.gen = "header" /\ Len(source) = 7) =>
    /\ last.op = "ParseADTSHeader" => ParsedBack(args.h)
    /\ last.op = "readHeader" => ReadBack(args.h)

\* C20: buildAudioSpecificConfig(o, f, c) returns 2 bytes, byte0 = (o << 3) |
\* (f >> 1) and byte1 = ((f & 1) << 7) | (c << 3), for o in 0..31, f in 0..15, c
\* in 0..15; o, f and c can be read back out of the two bytes; (2,4,2) gives
\* [0x12,0x10] and (2,4,1) gives [0x12,0x08].
C20_ConfigBytes ==
  last.op = "buildAudioSpecificConfig" =>
    /\ Len(last.res) = 2
    /\ last.res[1] = (args.objectType * 8) + (args.samplingFreqIndex \div 2)
    /\ last.res[2] = ((args.samplingFreqIndex % 2) * 128) + (args.channelConfig * 8)
    /\ last.res[1] \div 8 = args.objectType
    /\ ((last.res[1] % 8) * 2) + (last.res[2] \div 128) = args.samplingFreqIndex
    /\ (last.res[2] % 128) \div 8 = args.channelConfig
    /\ last.res[2] % 8 = 0
    /\ (args.objectType = 2 /\ args.samplingFreqIndex = 4 /\ args.channelConfig = 2)
         => last.res = <<18, 16>>
    /\ (args.objectType = 2 /\ args.samplingFreqIndex = 4 /\ args.channelConfig = 1)
         => last.res = <<18, 8>>

\* The config of the largest arguments: every bit of the two bytes but the low 3.
C20_Witness ==
  /\ last.op = "buildAudioSpecificConfig"
  /\ args.objectType = 31 /\ args.samplingFreqIndex = 15 /\ args.channelConfig = 15
  /\ last.res = <<255, 248>>

\* The stream of case c is one the resync contract speaks of: the lead and the
\* noise hold no 0xFF that could pair up with the header behind them, the noise
\* is shorter than the window, and a valid frame follows.
CleanNoise(c) ==
  /\ c.gen = "resync" /\ c.hasFrame /\ ~c.endsFF /\ c.lead[7] # 255
  /\ c.noise < maxResyncBytes

\* The header h carries the fields of frame f.
HeaderOf(h, f) ==
  /\ h.samplingFreqIndex = f.sfi
  /\ h.channelConfig = f.ch
  /\ h.frameLength = (IF f.crc THEN 9 ELSE 7) + f.plen

Desynced(at) ==
  /\ at + 7 <= Len(source)
  /\ SyncWord(SubSeq(source, at + 1, at + 7)) # 4095

\* The window that resync scans then: the 6 bytes kept of the failed header and
\* what one Read of the source delivers into the 8186 bytes behind them.
Window(at) ==
  SubSeq(source, at + 2, at + 7)
    \o SubSeq(source, at + 8,
              Min(Len(source), at + 7 + Min(chunk, maxResyncBytes - 6)))

\* C22: resync is bounded and not repeated. A header read that goes into resync
\* takes at most one window out of the source: the 7 header bytes and at most
\* 8186 more when the scan fails, and at most the 5 missing bytes of the found
\* header and 2 CRC bytes more when it succeeds. When the window holds no byte
\* pair 0xFF,0xFx the header read fails with ErrADTSSyncNotFound, and a Read
\* whose first header read does so returns that error, with no frame decoded
\* and without another scan.
C22_ResyncBounded ==
  /\ (last.op = "readHeader" /\ Desynced(last.at)) =>
       /\ srcPos - last.at <= maxResyncBytes + 8
       /\ FindSync(Window(last.at), 0) = -1 =>
            /\ last.res.err = "ErrADTSSyncNotFound"
            /\ srcPos - last.at <= maxResyncBytes + 1
  /\ (args.gen = "resync" /\ last.op = "Read" /\ srcPos # from /\ Desynced(from)
        /\ FindSync(Window(from), 0) = -1) =>
       /\ last.err = "ErrADTSSyncNotFound"
       /\ last.calls = 0
       /\ srcPos - from <= maxResyncBytes + 1

\* A Read scanned a whole window of noise: it returned ErrADTSSyncNotFound after
\* taking 7 + 8186 bytes and left the noise behind the window in the source.
C22_Witness ==
  /\ args.gen = "resync" /\ last.op = "Read" /\ last.err = "ErrADTSSyncNotFound"
  /\ srcPos - from = maxResyncBytes + 1
  /\ srcPos < Len(source)

\* The source position of the first byte pair 0xFF,0xFx behind position at + 1:
\* where resync finds the sync word after a failed header read at position at.
MatchAt(at) == at + 1 + FindSync(SubSeq(source, at + 2, Len(source)), 0)

\* C30: after a successful resync the stream is aligned on the discovered frame.
\* The header buffer holds the 7 source bytes that start at the matched byte
\* pair, and the payload read that follows starts at the source byte right
\* behind that header (and its 2 CRC bytes, if it has them).
C30_ResyncAligns ==
  (last.op = "readPayload" /\ Desynced(last.at)) =>
    /\ SubSeq(headerBuf, 1, 7)
         = SubSeq(source, MatchAt(last.at) + 1, MatchAt(last.at) + 7)
    /\ last.start
         = MatchAt(last.at) + (IF last.header.protectionAbsent THEN 7 ELSE 9)

\* The base case of the table builder: a fixed sample size, one chunk, no
\* duration runs.
BaseCase ==
  /\ last.op = "buildSampleTable"
  /\ args.stsz.SampleSize # 0
  /\ Len(args.chunkOffsets) = 1
  /\ args.sttsEntries = <<>>

\* The table has N = SampleCount descriptors, descriptor i at offset O + i*S
\* (in uint64), of size S and the default duration.
BaseTable ==
  /\ Len(samples) = args.stsz.SampleCount
  /\ \A i \in 0..(args.stsz.SampleCount - 1) :
       samples[i + 1] = SampleInfo(U64(args.chunkOffsets[1] + (i * args.stsz.SampleSize)),
                                   args.stsz.SampleSize, defaultDuration)

RunFor(stscEntries, chunkNo) ==
  LET runs == { i \in 1..Len(stscEntries) : stscEntries[i].FirstChunk <= chunkNo } IN
  IF runs = {} THEN 1
  ELSE stscEntries[CHOOSE i \in runs : \A j \in runs : j <= i].SamplesPerChunk

RECURSIVE Assigned(_, _)
\* The samples the chunk-run table gives the chunks 1..c together.
Assigned(stscEntries, c) ==
  IF c = 0 THEN 0 ELSE Assigned(stscEntries, c - 1) + RunFor(stscEntries, c)

\* buildSampleTable ran on non-empty sampleSizes and chunkOffsets.
BuiltNonEmpty ==
  /\ last.op = "buildSampleTable"
  /\ Len(last.sampleSizes) > 0 /\ Len(args.chunkOffsets) > 0

ChunkOfDesc(k) ==
  CHOOSE c \in 1..Len(args.chunkOffsets) :
    /\ Assigned(args.stscEntries, c - 1) < k
    /\ k <= Assigned(args.stscEntries, c)

RECURSIVE ChunkBytes(_, _)
\* The sizes of the descriptors 1..k that lie in chunk c, summed up.
ChunkBytes(c, k) ==
  IF k = 0 THEN 0
  ELSE ChunkBytes(c, k - 1) + (IF ChunkOfDesc(k) = c THEN samples[k].size ELSE 0)

\* Some byte lies in both byte ranges [offset, offset + size) of a and b.
Overlap(a, b) ==
  (IF a.offset > b.offset THEN a.offset ELSE b.offset)
    < Min(a.offset + a.size, b.offset + b.size)

\* Every chunk has room for its samples: they end at or before the offset of the
\* next chunk, and those of the last chunk within the range of uint64.
Spaced ==
  \A c \in 1..Len(args.chunkOffsets) :
    args.chunkOffsets[c] + ChunkBytes(c, Len(samples))
      <= (IF c < Len(args.chunkOffsets) THEN args.chunkOffsets[c + 1] ELSE WordMod)

\* Consecutive descriptors of one chunk: the second starts where the first ends.
NoGapInChunk ==
  \A k \in 1..(Len(samples) - 1) :
    ChunkOfDesc(k) = ChunkOfDesc(k + 1)
      => samples[k + 1].offset = U64(samples[k].offset + samples[k].size)

\* C25 (amended): in every table the builder returns, consecutive descriptors of
\* one chunk leave no gap and do not overlap: each starts where the one before
\* it ends. The byte ranges of any two distinct descriptors do not overlap
\* provided that every chunk has room for its samples before the next chunk
\* starts.
C25_ChunkLayout ==
  last.op = "buildSampleTable" =>
    /\ NoGapInChunk
    /\ Spaced =>
         \A j, k \in 1..Len(samples) : j # k => ~Overlap(samples[j], samples[k])

\* Two samples of 3 bytes in a chunk at 0 and one of 2 bytes in a chunk at 6.
C25_Witness ==
  /\ last.op = "buildSampleTable" /\ Spaced
  /\ args.chunkOffsets = <<0, 6>>
  /\ samples = <<SampleInfo(0, 3, 1024), SampleInfo(3, 3, 1024), SampleInfo(6, 2, 1024)>>

\* C25 as the specification states it: for ascending chunk offsets no two
\* descriptors overlap, and those of one chunk leave no gap.
C25_NoOverlap ==
  (last.op = "buildSampleTable"
     /\ \A c \in 1..(Len(args.chunkOffsets) - 1) :
          args.chunkOffsets[c] < args.chunkOffsets[c + 1]) =>
    /\ \A j, k \in 1..Len(samples) : j # k => ~Overlap(samples[j], samples[k])
    /\ \A k \in 1..(Len(samples) - 1) :
         ChunkOfDesc(k) = ChunkOfDesc(k + 1)
           => samples[k + 1].offset = samples[k].offset + samples[k].size

\* C26: in every state of an open container reader, after any sequence of Read
\* and Seek calls, 0 <= Position() <= Duration().
C26_PositionWithinDuration ==
  (kind = "m4a" /\ pc = "open") =>
    /\ 0 <= Position(currentIdx)
    /\ Position(currentIdx) <= Duration

\* A step that is a Read of a container reader that has not been closed.
IsM4ARead == kind = "m4a" /\ pc = "open" /\ decoder = "set" /\ last'.op = "Read"

\* C27 (amended): Position() is 0 before the first Read. With no Seek in
\* between, a Read never moves the current sample index back; a Read served from
\* leftover samples alone fills the buffer and leaves Position() as it was, and
\* Position() is different after a Read only if the Read fetched a new
\* descriptor.
C27_PositionFollowsIndex ==
  [][ /\ (kind = "m4a" /\ pc = "open" /\ last.op = "Open") => Position(currentIdx) = 0
      /\ IsM4ARead =>
           /\ currentIdx' >= currentIdx
           /\ (last'.arg > 0 /\ Len(pcmBuffer) - pcmOffset >= last'.arg) =>
                /\ last'.n = last'.arg
                /\ Position(currentIdx') = Position(currentIdx)
           /\ Position(currentIdx') # Position(currentIdx) => currentIdx' > currentIdx
    ]_vars

\* A Read returned a sample without fetching a descriptor: it was served from the
\* leftover of a frame of two samples, and the position is where it was.
C27_Witness ==
  /\ kind = "m4a" /\ last.op = "Read" /\ last.err = "nil"
  /\ last.arg = 1 /\ last.n = 1 /\ last.calls = 0
  /\ currentIdx = 1 /\ Position(currentIdx) > 0

\* C27 as stated: with no Seek in between, each Read that returns at least one
\* sample leaves Position() strictly greater than it was after the Read before
\* it (0 before the first Read).
C27_PositionIncreases ==
  [][ (IsM4ARead /\ last.op \in {"Open", "Read"} /\ last'.n > 0)
        => Position(currentIdx') > Position(currentIdx) ]_vars

\* A Read has just returned the decode error of the engine.
DecodeFailedInRead ==
  /\ pc = "open" /\ last.op = "Read" /\ last.err = "ErrDecodeFailed"

\* The index (0-based) of the frame whose decode failed in that Read: the
\* descriptor before the current sample index, or the frame after the frames
\* decoded so far.
FailedFrame == IF kind = "m4a" THEN currentIdx - 1 ELSE framesRead

\* C28: when the engine reports an error for a frame during Read, Read returns
\* that error, not another one, with the count of the samples copied in this
\* call so far, and the error carries the index of the frame that failed.
C28_DecodeErrorTagged ==
  DecodeFailedInRead =>
    /\ last.calls >= 1
    /\ last.n = Len(last.pcm) /\ last.n < last.arg
    /\ ErrorFrame(last.err) = FailedFrame

\* A Read of an open reader (container or elementary) is being taken.
IsRead == pc = "open" /\ decoder = "set" /\ last'.op = "Read"

\* The leftover samples alone fill the buffer of that Read.
FromLeftover == last'.arg > 0 /\ Len(pcmBuffer) - pcmOffset >= last'.arg

\* C29: a Read whose buffer is filled completely from leftover samples returns
\* those samples with no error, performs no fetch and no decode: the current
\* sample index, the frame counter and the position of the source are as they
\* were, the leftover buffer is the same, and only the consumed offset advances,
\* by the count returned, staying between 0 and the leftover length.
C29_LeftoverOnly ==
  [][ (IsRead /\ FromLeftover) =>
        /\ last'.n = last'.arg /\ last'.err = "nil" /\ last'.calls = 0
        /\ last'.pcm = SubSeq(pcmBuffer, pcmOffset + 1, pcmOffset + last'.arg)
        /\ currentIdx' = currentIdx /\ framesRead' = framesRead /\ srcPos' = srcPos
        /\ pcmBuffer' = pcmBuffer
        /\ pcmOffset' = pcmOffset + last'.arg
        /\ 0 <= pcmOffset' /\ pcmOffset' <= Len(pcmBuffer')
    ]_vars

\* A Read of the elementary reader was served from the leftover of a decoded
\* frame: it returned what it was asked for with no decode, and the consumed
\* offset stands inside the leftover.
C29_Witness ==
  /\ kind = "adts" /\ pc = "open" /\ last.op = "Read" /\ last.err = "nil"
  /\ last.arg >= 1 /\ last.n = last.arg /\ last.calls = 0
  /\ framesRead >= 1 /\ pcmOffset >= 1 /\ pcmOffset <= Len(pcmBuffer)

\* C31: for the chunk with 0-based index c, buildSampleTable takes the
\* samplesPerChunk of the entry listed last among the chunk-run entries whose
\* firstChunk is at most c + 1, and 1 when the table is empty or no entry has
\* such a firstChunk.
C31_RunSelection ==
  last.op = "buildSampleTable" =>
    \A c \in 0..(Len(args.chunkOffsets) - 1) :
      LET runs == { i \in 1..Len(args.stscEntries) :
                      args.stscEntries[i].FirstChunk <= c + 1 } IN
      /\ runs = {} => last.samplesInChunk[c + 1] = 1
      /\ runs # {} =>
           \E i \in runs :
             /\ \A j \in runs : j <= i
             /\ last.samplesInChunk[c + 1] = args.stscEntries[i].SamplesPerChunk

\* Two chunks under a table whose only run starts at chunk 2: the first chunk has
\* no entry and takes 1 sample, the second takes the run's 2.
C31_Witness ==
  /\ last.op = "buildSampleTable" /\ Len(args.chunkOffsets) = 2
  /\ args.stscEntries = <<[FirstChunk |-> 2, SamplesPerChunk |-> 2]>>
  /\ last.samplesInChunk = <<1, 2>>

RECURSIVE RunsCover(_, _)
\* The number of samples the duration runs 1..e stand for.
RunsCover(sttsEntries, e) ==
  IF e = 0 THEN 0 ELSE RunsCover(sttsEntries, e - 1) + sttsEntries[e].SampleCount

\* The duration the runs give sample k (0-based), run by run; the fallback when
\* the runs stand for k or fewer samples.
ExpandedDuration(sttsEntries, k) ==
  IF RunsCover(sttsEntries, Len(sttsEntries)) <= k THEN 1024
  ELSE sttsEntries[CHOOSE e \in 1..Len(sttsEntries) :
                     /\ RunsCover(sttsEntries, e - 1) <= k
                     /\ k < RunsCover(sttsEntries, e)].SampleDelta

\* Descriptor k (1-based) is the first one of its chunk.
FirstOfChunk(k) == k = 1 \/ ChunkOfDesc(k) # ChunkOfDesc(k - 1)

\* C32: descriptor k (0-based, playback order) of the built table has size
\* sampleSizes[k] and the duration element k of the runs expanded run by run, or
\* 1024 when the expansion has k or fewer elements. The first descriptor of a
\* chunk has the chunk's offset, every further one of the chunk the offset plus
\* the size of the descriptor before it (an addition of uint64).
C32_DescriptorContents ==
  last.op = "buildSampleTable" =>
    \A k \in 1..Len(samples) :
      /\ samples[k].size = last.sampleSizes[k]
      /\ samples[k].duration = ExpandedDuration(args.sttsEntries, k - 1)
      /\ samples[k].offset =
           IF FirstOfChunk(k) THEN args.chunkOffsets[ChunkOfDesc(k)]
           ELSE U64(samples[k - 1].offset + samples[k - 1].size)

\* Three samples, two in the chunk at 0 and one in the chunk at 6, under
\* a run that stands for the first of them: the others have the fallback duration.
C32_Witness ==
  /\ last.op = "buildSampleTable"
  /\ args.chunkOffsets = <<0, 6>>
  /\ args.sttsEntries = <<[SampleCount |-> 1, SampleDelta |-> 5]>>
  /\ samples = <<SampleInfo(0, 3, 5), SampleInfo(3, 2, 1024), SampleInfo(6, 3, 1024)>>

\* The track has no sample sizes or no chunk offsets.
EmptyTables == Len(StszSizes(args.stsz)) = 0 \/ Len(args.chunkOffsets) = 0

\* parseM4A found a codec configuration.
ConfigFound == info.err = "nil" /\ Len(info.config) > 0

\* What the making and the initialization of the decoder return in OpenM4A.
DecoderSetupErr ==
  IF NewDecoderErr # "nil" THEN NewDecoderErr
  ELSE DecoderInit(NewDecoder, info.config).err

\* C33 (amended): empty sampleSizes or empty chunkOffsets give an empty sample
\* table. With a codec configuration found, OpenM4A then returns what the making
\* and the initialization of the decoder with that configuration return: it
\* succeeds when they do. Duration() is then 0 and every Read with a non-empty
\* buffer returns (0, end of stream).
C33_EmptyTableOpens ==
  (kind = "table" /\ EmptyTables) =>
    /\ pc \in {"built", "open", "failed"} => samples = <<>>
    /\ (last.op = "Open" /\ ConfigFound) =>
         /\ last.err = DecoderSetupErr
         /\ last.err = "nil" => (pc = "open" /\ decoder = "set" /\ Duration = 0)
    /\ (last.op = "Read" /\ last.arg > 0) =>
         /\ Duration = 0
         /\ last.n = 0 /\ last.err = "EOF"

\* A track with a sample size but no chunk offset, a timescale and an AAC-LC
\* configuration: the table is empty, OpenM4A succeeded and a Read of one sample
\* has returned the end of the stream.
C33_Witness ==
  /\ kind = "table" /\ pc = "open"
  /\ Len(StszSizes(args.stsz)) = 1 /\ Len(args.chunkOffsets) = 0
  /\ timescale > 0 /\ info.config = <<18, 16>>
  /\ samples = <<>> /\ Duration = 0
  /\ last.op = "Read" /\ last.arg = 1 /\ last.n = 0 /\ last.err = "EOF"

\* C33 as the specification states it: with empty sampleSizes or chunkOffsets
\* the table is empty, OpenM4A succeeds whenever a codec configuration was
\* found, Duration() is 0 and the first Read returns (0, end of stream).
C33_EmptyTableOpenSucceeds ==
  (kind = "table" /\ EmptyTables) =>
    /\ pc \in {"built", "open", "failed"} => samples = <<>>
    /\ (last.op = "Open" /\ ConfigFound) =>
         (last.err = "nil" /\ pc = "open" /\ Duration = 0)
    /\ (last.op = "Read" /\ last.arg > 0) => (last.n = 0 /\ last.err = "EOF")

\* The size of the header h: 7 bytes, and 2 more of CRC unless the CRC-absent
\* flag is set.
HeaderSize(h) == IF h.protectionAbsent THEN 7 ELSE 9

\* The frame of the stream declares a length of at most its header size, and the
\* stream holds its whole header.
ShortFrame ==
  /\ args.gen = "frame"
  /\ args.frameLength <= 7 + Len(args.crc)

\* Where the frame starts in the stream: behind the priming frame, if any.
FrameAt == Len(source) - (7 + Len(args.crc) + args.avail)

\* C34: the elementary stream reader rejects with ErrInvalidADTS every frame
\* whose frame length is at most the header size (7 with the CRC-absent flag
\* set, 9 otherwise, whatever the 2 CRC bytes are), in readPayload, in OpenADTS
\* and in Read; a payload it reads has frameLength - headerSize >= 1 bytes, and
\* no empty frame reaches the decoder. (from: where the source stood before the
\* Read; the Read in question is the one that starts at the frame.)
C34_ShortFrameRejected ==
  /\ last.op = "readPayload" =>
       /\ HeaderSize(last.header) = 7 + Len(args.crc)
       /\ last.header.frameLength = args.frameLength
       /\ ShortFrame => (last.res.err = "ErrInvalidADTS" /\ srcPos = last.start)
       /\ last.res.err = "nil" =>
            /\ Len(last.res.payload) = last.header.frameLength - HeaderSize(last.header)
            /\ Len(last.res.payload) >= 1
  /\ last.op \in {"Open", "Read"} => last.err # "ErrEmptyFrame"
  /\ (last.op = "Open" /\ ShortFrame /\ ~args.before) =>
       (last.err = "ErrInvalidADTS" /\ pc = "failed")
  /\ (last.op = "Read" /\ last.arg > 0 /\ ShortFrame /\ args.before /\ from = FrameAt) =>
       (last.err = "ErrInvalidADTS" /\ last.n = 0 /\ last.calls = 0)

\* A frame with CRC bytes and a declared length of 9 at the start of the stream,
\* a byte behind it: readPayload has turned it down and has not touched the byte.
C34_Witness ==
  /\ args.gen = "frame" /\ ~args.before
  /\ args.crc = <<171, 205>> /\ args.frameLength = 9 /\ args.avail = 1
  /\ last.op = "readPayload" /\ last.res.err = "ErrInvalidADTS"
  /\ srcPos = 9 /\ srcPos < Len(source)

\* The frames an operation that has just returned decoded successfully: the
\* decode calls it made on the engine, less the one that failed.
DecodedOK(l) == l.calls - (IF l.err = "ErrDecodeFailed" THEN 1 ELSE 0)

\* C35: FramesRead() is the number of frames the elementary reader has decoded
\* successfully: 1 right after OpenADTS (the priming frame); each Read adds the
\* frames it decoded successfully, those of zero samples included, and nothing
\* for a frame whose header read, payload read or decode failed; no operation
\* makes it smaller.
C35_FramesReadCounts ==
  [][ kind = "adts" =>
        /\ framesRead' >= framesRead
        /\ (pc = "start" /\ last'.op = "Open" /\ last'.err = "nil") => framesRead' = 1
        /\ (pc = "start" /\ last'.op = "Open" /\ last'.err # "nil") => framesRead' = 0
        /\ (pc = "open" /\ last'.op = "Read") =>
             framesRead' = framesRead + DecodedOK(last')
    ]_vars

\* A Read decoded one frame and failed to decode the next: with the priming
\* frame two frames are counted.
C35_Witness ==
  /\ kind = "adts" /\ pc = "open" /\ last.op = "Read"
  /\ last.err = "ErrDecodeFailed" /\ last.calls = 2
  /\ framesRead = 2

\* The error of the fetch and decode of descriptor k (1-based), "nil" if none.
FetchDecodeErr(k) ==
  LET f == M4AFetch(samples[k]) IN
  IF f.err # "nil" THEN f.err ELSE DecoderDecode(dec, f.data).err

\* A Read of the open container reader has just failed on a descriptor (it did
\* not end at the end of the table).
FailedOnDescriptor == last.op = "Read" /\ last.err # "nil" /\ ~last.eof

C37_ModuleCallsSerialized == kind = "pair" => Cardinality(inEngine) <= 1

\* Entry i of the log of the runtime is a getWasmContext whose initWasmContext
\* failed.
InitFailedAt(i) ==
  rtLog[i].op = "getWasmContext" /\ rtLog[i].inits = 1 /\ rtLog[i].err # "nil"

C38_NewDecoderOnOpenRuntime ==
  kind = "newdecoder" =>
    /\ \A i \in 1..Len(engineLog) : ~engineLog[i].closed
    /\ \A p \in Procs :
         (ret[p].op = "NewDecoder" /\ ret[p].err = "nil") => ~ret[p].closed

\* The tracks the entries of the four tables were read from.
TableTracks ==
  { last.sizesOf[i] : i \in 1..Len(last.sizesOf) }
    \cup { last.offsetsOf[i] : i \in 1..Len(last.offsetsOf) }
    \cup { last.stscOf[i] : i \in 1..Len(last.stscOf) }
    \cup { last.sttsOf[i] : i \in 1..Len(last.sttsOf) }

\* C40: whatever boxes the file holds, the tables the sample table is built from
\* hold entries of one single track, and that track has a sound handler.
C40_TablesOfOneSoundTrack ==
  (kind = "parse" /\ pc = "parsed") =>
    (TableTracks \subseteq last.sound /\ Cardinality(TableTracks) <= 1)

=============================================================================
